---- MODULE Spec2Model ----
(***************************************************************************)
(* LAWBOT: the retrieval-augmented-generation pipeline of app/rag.         *)
(*                                                                         *)
(* One request at a time is followed from the HTTP front door (or a direct *)
(* call of an orchestrator function) through the stages embed, retrieve,   *)
(* prompt, generate, and, on the streaming path, through the consumption   *)
(* of the returned generator.  The three external services (OpenAI         *)
(* embeddings, Qdrant search, OpenAI chat) are the environment: what they  *)
(* hold is fixed in Init, whether a request to them succeeds is chosen at  *)
(* every call.                                                             *)
(*                                                                         *)
(* Text is a sequence of one-character strings; the fixed template pieces  *)
(* of the prompts are single tokens of such a sequence.                    *)
(*                                                                         *)
(* SpecStream is the streaming requests alone, with the finalization of    *)
(* an abandoned generator taken when it is possible; SpecPair is a call    *)
(* through one implementation (law_rag.py or the graph) followed by the    *)
(* same call through the other.                                            *)
(*                                                                         *)
(* Six more specifications run a part on its own, in the variable frame:   *)
(* SpecEmbed is embed_texts_openai with any texts, batch size and retry;   *)
(* SpecContext is build_context_from_points with any points and cap;       *)
(* SpecConcurrent is two invocations of the entry operations interleaved,  *)
(* with the module-level KURE model and Qdrant session between them;       *)
(* SpecHandler is the two streaming handlers on any return value of their  *)
(* entry operation; SpecChain is the retrieval chain of law_rag_chain.py;  *)
(* SpecIngest is upsert_law_rows, run once and again with the same rows.   *)
(***************************************************************************)
EXTENDS Integers, Sequences, FiniteSets, TLC

\* ------------------------------------------------------------------ bounds

\* Largest top_k a caller tries (the smallest tried is -1).
MaxTopK == 2
\* Number of hits the Qdrant collection holds for the query.
MaxHits == 3
\* Longest list of texts given to embed_texts_openai on its own.
MaxTexts == 2
\* Largest request_batch_size tried (the smallest tried is -1).
MaxBatch == 2
\* Longest list of points given to build_context_from_points on its own.
MaxPoints == 2
\* Largest max_chars_per_doc tried on its own (the smallest tried is -1).
MaxCap == 2

\* ------------------------------------------------------- program constants

\* LawChatRequest.top_k = Field(5, ge=1, le=20)
TopKMin == 1
TopKMax == 20
\* LawChatRequest.question = Field(..., min_length=1)
QuestionMinLen == 1
\* embed_texts_openai(..., retry: int = 3)
Retry == 3
\* build_context_from_points(points, max_chars_per_doc: int = 900)
MaxCharsPerDoc == 900

\* ------------------------------------------------------------ Python values

\* Python's None, among values that are text.
None == <<"<None>">>
\* {} : the dict with no key.
EmptyDict == <<>>

\* d.get(k, dflt)
Get(d, k, dflt) == IF k \in DOMAIN d THEN d[k] ELSE dflt

\* Truthiness of a text-or-None value: None and "" are falsy.
Truthy(v) == v # None /\ v # <<>>

\* a or b
Or(a, b) == IF Truthy(a) THEN a ELSE b

\* Whitespace characters str.strip() removes.
IsSpace(c) == c \in {" ", "\n"}

RECURSIVE LStrip(_)
LStrip(s) == IF s # <<>> /\ IsSpace(Head(s)) THEN LStrip(Tail(s)) ELSE s

RECURSIVE RStrip(_)
RStrip(s) ==
    IF s # <<>> /\ IsSpace(s[Len(s)]) THEN RStrip(SubSeq(s, 1, Len(s) - 1)) ELSE s

\* s.strip()
Strip(s) == RStrip(LStrip(s))

\* s.replace("\n", " ")
ReplaceNewline(s) == [i \in 1..Len(s) |-> IF s[i] = "\n" THEN " " ELSE s[i]]

\* s[:n] for n > 0
Slice(s, n) == SubSeq(s, 1, IF n < Len(s) THEN n ELSE Len(s))

\* "\n".join(lines)
RECURSIVE JoinLines(_)
JoinLines(lines) ==
    IF lines = <<>> THEN <<>>
    ELSE IF Len(lines) = 1 THEN lines[1]
    ELSE lines[1] \o <<"\n">> \o JoinLines(Tail(lines))

\* str(x) of a value that is a str already (Qdrant point ids of this
\* repository are UUID strings, see _make_point_id and uuid4 in ingestion).
PyStr(x) == x

\* float(x) of a JSON number: the same number.  Scores are kept in
\* hundredths (0.91 is 91).
PyFloat(x) == x

\* ------------------------------------------------- configuration (config.py)

\* What a setting can hold: the empty string or a value.
UrlValues == {"", "http://qdrant"}
CollectionNameValues == {"", "law_qa_v1"}
CollectionOaiValues == {"", "KLAC_BASIC_1_OAI_1536"}
ProviderValues == {"openai", "kure"}
KeyValues == {"", "sk"}

\* ------------------------------------------------------------- the services

\* The hits the collection ranks first for the query, best first, as the
\* JSON objects of Qdrant's "result" array.  The third has no payload.
Hit1 ==
    [id |-> "u1", score |-> 91,
     payload |-> [question |-> <<"q">>, answer |-> <<"a", "b">>,
                  source_dataset |-> <<"d">>, law_category |-> <<"c">>]]
Hit2 ==
    [id |-> "u2", score |-> 85,
     payload |-> [answer |-> <<" ", "a", "\n">>, dataset_name |-> <<"e">>]]
Hit3 == [id |-> "u3", score |-> 80]
\* The n-th hit of the ranking: lower ranks score lower.
Hit(n) ==
    CASE n = 1 -> Hit1
      [] n = 2 -> Hit2
      [] n = 3 -> Hit3
      [] OTHER -> [id |-> "u" \o ToString(n), score |-> 80 - n,
                   payload |-> [question |-> <<"q">>, law_category |-> <<"c">>]]
Ranked == [n \in 1..MaxHits |-> Hit(n)]

\* What the collection can hold for the query: the first n of the ranking.
MatchSets == {SubSeq(Ranked, 1, n) : n \in 0..MaxHits}

\* What client.embeddings.create returns as resp.data for a one-text batch:
\* one embedding, or (a misbehaving backend) none.
EmbedDatas == {<< <<3, 4>> >>, << >>}

\* The deltas of a chat completion stream: a chunk without content is "".
ChunkLists == {<< >>, <<"f1", "", "f2">>}

\* message.content of a chat completion: text with surrounding space, or None.
Contents == {<<" ", "x", " ">>, None}

\* ------------------------------------------------------------ pure functions

\* law_rag._active_collection_name
active_collection_name(c) ==
    IF c.EMBED_PROVIDER = "kure"
    THEN c.QDRANT_COLLECTION_NAME
    ELSE IF c.QDRANT_COLLECTION_OAI # "" THEN c.QDRANT_COLLECTION_OAI
         ELSE c.QDRANT_COLLECTION_NAME

\* One element of qdrant_search_laws' out list, from one result object r.
PointOf(r, col) ==
    LET payload_obj == Get(r, "payload", EmptyDict)
    IN  [id |-> PyStr(Get(r, "id", "")),
         score |-> PyFloat(Get(r, "score", 0)),
         dataset |-> Or(Or(Get(payload_obj, "dataset_name", None),
                           Get(payload_obj, "dataset", None)),
                        Get(payload_obj, "source_dataset", None)),
         category |-> Or(Get(payload_obj, "law_category", None),
                         Get(payload_obj, "category", None)),
         question |-> Get(payload_obj, "question", None),
         answer |-> Get(payload_obj, "answer", None),
         answerSnippet |-> None,
         docNo |-> None,
         collection |-> col]

\* A loop that builds the list back to front.
PointsOf_Reversed(results, col) ==
    [i \in 1..Len(results) |-> PointOf(results[Len(results) + 1 - i], col)]

\* The loop of qdrant_search_laws over data["result"].
PointsOf(results, col) == [i \in 1..Len(results) |-> PointOf(results[i], col)]

\* A cut that is made already when the answer is exactly as long as the cap.
SectionLines_CutsAtCap(p, i, max_chars_per_doc) ==
    LET q == Strip(Or(Get(p, "question", None), <<>>))
        a0 == Strip(Or(Get(p, "answer", None), <<>>))
        a == IF max_chars_per_doc > 0 /\ Len(a0) >= max_chars_per_doc
             THEN Slice(a0, max_chars_per_doc) \o <<"...">>
             ELSE a0
    IN  << <<"[doc ", ToString(i), "]">> >>
        \o (IF q # <<>> THEN << <<"Q: ">> \o q >> ELSE << >>)
        \o (IF a # <<>> THEN << <<"A: ">> \o a >> ELSE << >>)
        \o << <<>> >>

\* The lines build_context_from_points appends for the i-th point p.
SectionLines(p, i, max_chars_per_doc) ==
    LET q == Strip(Or(Get(p, "question", None), <<>>))
        a0 == Strip(Or(Get(p, "answer", None), <<>>))
        a == IF max_chars_per_doc > 0 /\ Len(a0) > max_chars_per_doc
             THEN Slice(a0, max_chars_per_doc) \o <<"...">>
             ELSE a0
    IN  << <<"[doc ", ToString(i), "]">> >>
        \o (IF q # <<>> THEN << <<"Q: ">> \o q >> ELSE << >>)
        \o (IF a # <<>> THEN << <<"A: ">> \o a >> ELSE << >>)
        \o << <<>> >>

RECURSIVE ContextLines(_, _, _)
ContextLines(points, i, max_chars_per_doc) ==
    IF i > Len(points) THEN << >>
    ELSE SectionLines(points[i], i, max_chars_per_doc)
         \o ContextLines(points, i + 1, max_chars_per_doc)

\* A return that writes a notice when there is no line.
ContextText_NoticeWhenEmpty(lines) ==
    IF lines = <<>> THEN <<"(no documents found)">> ELSE Strip(JoinLines(lines))

\* return "\n".join(lines).strip()
ContextText(lines) == Strip(JoinLines(lines))

\* law_rag.build_context_from_points
build_context_from_points(points, max_chars_per_doc) ==
    ContextText(ContextLines(points, 1, max_chars_per_doc))

\* The fixed instruction text of the system prompt.
SystemPrompt == <<"SYS: Korean legal assistant; cite [doc n]; 1) 2) 3) 4)\n">>

\* A user prompt that writes a notice where the context is empty.
UserPrompt_NoticeWhenEmpty(question, context) ==
    <<"Question: ">> \o question \o <<"\n", "\n">>
    \o <<"Reference documents:\n">>
    \o (IF context = <<>> THEN <<"(no documents found)">> ELSE context)
    \o <<"\n", "\n">>
    \o <<"Answer in the required format, cite [doc n].">>

\* The user prompt of both implementations.
UserPrompt(question, context) ==
    <<"Question: ">> \o question \o <<"\n", "\n">>
    \o <<"Reference documents:\n">> \o context \o <<"\n", "\n">>
    \o <<"Answer in the required format, cite [doc n].">>

\* law_rag._build_prompts
build_prompts(question, context) ==
    [system_prompt |-> SystemPrompt, user_prompt |-> UserPrompt(question, context)]

\* The text embed_texts_openai sends for one input text t.
Cleaned(t) ==
    LET s == Strip(ReplaceNewline(Or(t, <<>>)))
    IN  IF s = <<>> THEN <<" ">> ELSE s

\* --------------------------------------------------------------- the graphs

\* The four entry operations.
SyncEntries == {"search_law_with_answer", "answer_law_question_graph"}
StreamEntries == {"stream_law_answer", "stream_law_answer_graph"}
GraphEntries == {"answer_law_question_graph", "stream_law_answer_graph"}
DirectEntries == {"search_law_with_answer", "stream_law_answer"}
Entries == SyncEntries \cup StreamEntries

\* A full graph whose prompt node is wired to END, as in the prep graph.
FullEdges_NoGenerate ==
    [embed |-> "retrieve", retrieve |-> "prompt", prompt |-> "END",
     generate |-> "END"]

\* _build_graph_full: the edges of LAW_GRAPH_FULL.
FullEdges ==
    [embed |-> "retrieve", retrieve |-> "prompt", prompt |-> "generate",
     generate |-> "END"]

\* A prep graph that kept the full graph's edge from prompt to generate.
PrepEdges_WithGenerate ==
    [embed |-> "retrieve", retrieve |-> "prompt", prompt |-> "generate",
     generate |-> "END"]

\* A prep graph that ends after retrieve: the prompt node is not wired in.
PrepEdges_EndsAfterRetrieve ==
    [embed |-> "retrieve", retrieve |-> "END", prompt |-> "END"]

\* _build_graph_prep: the edges of LAW_GRAPH_PREP.
PrepEdges == [embed |-> "retrieve", retrieve |-> "prompt", prompt |-> "END"]

\* search_law_with_answer: the statement order "# 1) embed" .. "# 4) openai chat".
DirectSyncOrder ==
    [embed |-> "retrieve", retrieve |-> "prompt", prompt |-> "generate",
     generate |-> "END"]

\* stream_law_answer: the statement order "# 1) embed" .. "# 3) prompt (prep)".
DirectStreamOrder == [embed |-> "retrieve", retrieve |-> "prompt", prompt |-> "END"]

\* The stage that follows stage s in entry operation e ("END": none).
Successor(e, s) ==
    CASE e = "answer_law_question_graph" -> FullEdges[s]
      [] e = "stream_law_answer_graph" -> PrepEdges[s]
      [] e = "search_law_with_answer" -> DirectSyncOrder[s]
      [] e = "stream_law_answer" -> DirectStreamOrder[s]

\* A graph entered at its second node.
EntryPoint_Retrieve == "retrieve"

\* set_entry_point("embed"); the first statement group of the direct functions.
EntryPoint == "embed"

\* ------------------------------------------------------------------- state

VARIABLES
    cfg,        \* the settings app.config captured at import
    osenv,      \* os.environ, as os.getenv reads it at call time
    svc,        \* what the embedding backend and the collection hold
    req,        \* the call: entry operation, how it arrives, question, top_k
    pc,         \* where the call is
    state,      \* GraphState (graph) or the local variables (direct)
    embedLoop,  \* embed_texts_openai: attempt and last_err of the retry loop
    stageLog,   \* the stage events of this call, in order
    calls,      \* the requests made to the three services, in order
    replies,    \* what the services answered to them, in the same order
    outcome,    \* what the entry operation raised or returned
    gen,        \* the generator of call_openai_chat_stream
    http,       \* the HTTP response of the handler
    prev,       \* the call before this one: its search, neighbors and state
    wire,       \* the "result" array of the search answer this call received
    frame       \* a function run on its own: its arguments and local variables

vars ==
    <<cfg, osenv, svc, req, pc, state, embedLoop, stageLog, calls, replies,
      outcome, gen, http, prev, wire, frame>>

\* Questions a caller sends: empty, and one character.
Questions == {<<>>, <<"q">>}
\* top_k values a caller sends.
TopKs == -1..MaxTopK

\* conn: the HTTP connection of the streaming request ("none": not opened).
NoGen == [st |-> "none", chunks |-> <<>>, pos |-> 0, delivered |-> <<>>,
          conn |-> "none"]
NoHttp == [status |-> 0, answer |-> <<>>, sources |-> <<>>, body |-> <<>>,
           complete |-> FALSE]
NoOutcome == [raised |-> "", at |-> "", returned |-> FALSE, answer |-> <<>>,
              points |-> <<>>]
NoLoop == [attempt |-> 0, last_err |-> ""]
NoPrev == [search |-> <<>>, points |-> <<>>, entry |-> "", state |-> EmptyDict,
           calls |-> <<>>, replies |-> <<>>, outcome |-> NoOutcome]
NoFrame == [fn |-> "none"]

\* config.py reads the settings from the environment at import, and
\* embeddings.py reads EMBED_PROVIDER and the keys from it at call time; the
\* environment is the one config.py saw (nothing in the repository changes
\* it), so both see the same provider and the same OPENAI_API_KEY_LAWBOT.
\* OPENAI_API_KEY is read by embeddings.py alone.
Init ==
    /\ osenv \in [EMBED_PROVIDER : ProviderValues,
                   OPENAI_API_KEY_LAWBOT : KeyValues,
                   OPENAI_API_KEY : KeyValues]
    /\ cfg \in [QDRANT_URL : UrlValues,
                 QDRANT_COLLECTION_NAME : CollectionNameValues,
                 QDRANT_COLLECTION_OAI : CollectionOaiValues,
                 EMBED_PROVIDER : {osenv.EMBED_PROVIDER},
                 OPENAI_API_KEY_LAWBOT : {osenv.OPENAI_API_KEY_LAWBOT}]
    /\ svc \in [embedData : EmbedDatas, matches : MatchSets]
    /\ req \in [entry : Entries, via : {"http", "direct"},
                 question : Questions, top_k : TopKs, callNo : {1}]
    /\ pc = IF req.via = "http" THEN "http" ELSE "entry"
    /\ state = EmptyDict
    /\ embedLoop = NoLoop
    /\ stageLog = <<>>
    /\ calls = <<>>
    /\ replies = <<>>
    /\ outcome = NoOutcome
    /\ gen = NoGen
    /\ http = NoHttp
    /\ prev = NoPrev
    /\ frame = NoFrame
    /\ wire = <<>>

\* ------------------------------------------------------------ HTTP front door

\* LawChatRequest: question = Field(..., min_length=1), top_k = Field(5, ge=1, le=20)
RequestValid(q, k) == Len(q) >= QuestionMinLen /\ k >= TopKMin /\ k <= TopKMax

\* FastAPI validates the body against LawChatRequest before the handler runs:
\* an invalid body is answered 422 and the handler is never called.
HttpValidate ==
    /\ pc = "http"
    /\ IF RequestValid(req.question, req.top_k)
       THEN /\ pc' = "entry"
            /\ http' = http
       ELSE /\ pc' = "done"
            /\ http' = [http EXCEPT !.status = 422, !.complete = TRUE]
    /\ UNCHANGED <<frame, cfg, osenv, svc, wire, req, state, embedLoop, stageLog, calls,
                   replies, outcome, gen, prev>>

\* ---------------------------------------------------------------- the stages

\* A streaming graph function that leaves top_k out of the initial state.
InitialState_StreamDropsTopK(e, q, k) ==
    IF e = "stream_law_answer_graph" THEN [question |-> q]
    ELSE IF e \in GraphEntries THEN [question |-> q, top_k |-> k]
    ELSE [question |-> q, top_k |-> k, active_col |-> active_collection_name(cfg)]

\* The state the entry operation starts from: {"question", "top_k"} for the
\* graph; query, top_k and active_col for the direct functions.
InitialState(e, q, k) ==
    IF e \in GraphEntries
    THEN [question |-> q, top_k |-> k]
    ELSE [question |-> q, top_k |-> k, active_col |-> active_collection_name(cfg)]

\* The entry operation is called and reaches its first stage.
Enter ==
    /\ pc = "entry"
    /\ state' = InitialState(req.entry, req.question, req.top_k)
    /\ pc' = EntryPoint
    /\ UNCHANGED <<frame, cfg, osenv, svc, wire, req, embedLoop, stageLog, calls,
                   replies, outcome, gen, http, prev>>

\* A node whose return value replaces the state instead of updating it.
Put_ReplacesState(d, k, v) == [x \in {k} |-> v]

\* d[k] = v
Put(d, k, v) == [x \in DOMAIN d \cup {k} |-> IF x = k THEN v ELSE d[x]]

\* A stage whose exception is caught and dropped: the run goes on to the end
\* and returns what the state holds.
Raised_Swallowed(stage, kind, log) ==
    /\ pc' = "END"
    /\ outcome' = outcome
    /\ stageLog' = log \o <<stage \o ":raise">>

\* An orchestrator that answers a failed stage by running the pipeline again
\* from its first stage.
Raised_Restarts(stage, kind, log) ==
    /\ pc' = "embed"
    /\ outcome' = outcome
    /\ stageLog' = log \o <<stage \o ":raise">>

\* A stage raises: no node and no statement catches, so the exception leaves
\* the graph's invoke and the entry operation.
Raised(stage, kind, log) ==
    /\ pc' = "raised"
    /\ outcome' = [outcome EXCEPT !.raised = kind, !.at = stage]
    /\ stageLog' = log \o <<stage \o ":raise">>

\* What a service answered: its data, or an error.
Answered(data) == [ok |-> TRUE, data |-> data]
Failed == [ok |-> FALSE, data |-> <<>>]

\* embed_texts with provider "kure": embed_texts_kure encodes with the local
\* model, which returns one vector per text, or raises.
KureVec == <<7, 8, 9>>

EmbedKure ==
    /\ pc = "embed"
    /\ osenv.EMBED_PROVIDER = "kure"
    /\ calls' = calls \o <<[gw |-> "embedding", provider |-> "kure",
                            input |-> <<state.question>>]>>
    /\ \E ok \in BOOLEAN :
          IF ok
          THEN /\ replies' = replies \o <<Answered(<<KureVec>>)>>
               /\ state' = Put(state, "query_vec", KureVec)
               /\ pc' = Successor(req.entry, "embed")
               /\ stageLog' = stageLog \o <<"embed:start", "embed:end">>
               /\ outcome' = outcome
          ELSE /\ replies' = replies \o <<Failed>>
               /\ Raised("embed", "provider", stageLog \o <<"embed:start">>)
               /\ state' = state
    /\ UNCHANGED <<frame, cfg, osenv, svc, wire, req, embedLoop, gen, http, prev>>

\* embeddings._get_oai_client: the key embed_texts_openai uses.
EmbedApiKey ==
    IF osenv.OPENAI_API_KEY_LAWBOT # "" THEN osenv.OPENAI_API_KEY_LAWBOT
    ELSE osenv.OPENAI_API_KEY

\* embed_texts with any other provider: embed_texts_openai up to its retry
\* loop.  texts is [question], never empty; a missing key raises before the
\* loop.
EmbedOpenAIStart ==
    /\ pc = "embed"
    /\ osenv.EMBED_PROVIDER # "kure"
    /\ embedLoop.attempt = 0
    /\ IF EmbedApiKey = ""
       THEN /\ Raised("embed", "config", stageLog \o <<"embed:start">>)
            /\ embedLoop' = embedLoop
       ELSE /\ embedLoop' = [attempt |-> 1, last_err |-> ""]
            /\ stageLog' = stageLog \o <<"embed:start">>
            /\ UNCHANGED <<pc, outcome>>
    /\ UNCHANGED <<frame, cfg, osenv, svc, wire, req, state, calls, replies, gen, http, prev>>

\* One pass of "for attempt in range(1, retry + 1)" for the only batch, and,
\* when the loop ends, the rest of the stage: [0] of the returned list and
\* the write of query_vec.
EmbedAttempt ==
    /\ pc = "embed"
    /\ embedLoop.attempt \in 1..Retry
    /\ calls' = calls \o <<[gw |-> "embedding", provider |-> "openai",
                            input |-> <<Cleaned(state.question)>>]>>
    /\ \E ok \in BOOLEAN :
          IF ok
          THEN /\ embedLoop' = NoLoop
               /\ replies' = replies \o <<Answered(svc.embedData)>>
               /\ IF svc.embedData = <<>>
                  THEN /\ Raised("embed", "index", stageLog)
                       /\ state' = state
                  ELSE /\ state' = Put(state, "query_vec", svc.embedData[1])
                       /\ pc' = Successor(req.entry, "embed")
                       /\ stageLog' = stageLog \o <<"embed:end">>
                       /\ outcome' = outcome
          ELSE /\ replies' = replies \o <<Failed>>
               /\ IF embedLoop.attempt < Retry
                  THEN /\ embedLoop' = [attempt |-> embedLoop.attempt + 1,
                                        last_err |-> "e"]
                       /\ UNCHANGED <<pc, state, stageLog, outcome>>
                  ELSE /\ embedLoop' = NoLoop
                       /\ Raised("embed", "provider", stageLog)
                       /\ state' = state
    /\ UNCHANGED <<frame, cfg, osenv, svc, wire, req, gen, http, prev>>

\* _node_retrieve: state.get("top_k", 5)
TopKDefault == 5

\* A _node_retrieve that names the KURE collection instead of leaving the
\* choice to qdrant_search_laws.
CollectionArg_GraphNamesKure ==
    IF req.entry \in DirectEntries THEN state.active_col
    ELSE cfg.QDRANT_COLLECTION_NAME

\* The collection_name argument of qdrant_search_laws: active_col in the
\* direct functions, absent (None) in _node_retrieve.
CollectionArg == IF req.entry \in DirectEntries THEN state.active_col ELSE ""

\* col of qdrant_search_laws: (collection_name or _active_collection_name()).strip();
\* the settings are stripped by config.py, so strip() leaves them as they are.
SearchCollection(collection_name) ==
    IF collection_name # "" THEN collection_name ELSE active_collection_name(cfg)

\* A request that asks for one hit more than top_k.
SearchLimit_PlusOne(k) == k + 1

\* The "limit" of the search request: int(top_k).
SearchLimit(k) == k

\* The "result" of a 2xx answer of POST /collections/{col}/points/search with
\* the given limit: at most limit hits, best first.  Qdrant answers a limit
\* below 1 with an error status.
QdrantResult(limit) ==
    SubSeq(svc.matches, 1, IF limit < Len(svc.matches) THEN limit ELSE Len(svc.matches))

\* The retrieve stage: qdrant_search_laws and build_context_from_points.
Retrieve ==
    /\ pc = "retrieve"
    /\ LET log == stageLog \o <<"retrieve:start">>
           limit == SearchLimit(Get(state, "top_k", TopKDefault))
           col == SearchCollection(CollectionArg)
       IN  IF cfg.QDRANT_URL = "" \/ col = ""
           THEN /\ Raised("retrieve", "config", log)
                /\ UNCHANGED <<state, calls, replies, wire>>
           ELSE /\ calls' = calls \o <<[gw |-> "search",
                                        vector |-> state.query_vec,
                                        limit |-> limit, collection |-> col]>>
                /\ \E ok \in BOOLEAN :
                      IF ok /\ limit >= 1
                      THEN LET pts == PointsOf(QdrantResult(limit), col)
                           IN  /\ state' = Put(Put(state, "points", pts), "context",
                                               build_context_from_points(pts, MaxCharsPerDoc))
                               /\ pc' = Successor(req.entry, "retrieve")
                               /\ stageLog' = log \o <<"retrieve:end">>
                               /\ outcome' = outcome
                               /\ wire' = QdrantResult(limit)
                               /\ replies' = replies \o <<Answered(QdrantResult(limit))>>
                      ELSE /\ Raised("retrieve", "transport", log)
                           /\ replies' = replies \o <<Failed>>
                           /\ UNCHANGED <<state, wire>>
    /\ UNCHANGED <<frame, cfg, osenv, svc, req, embedLoop, gen, http, prev>>

\* A _node_prompt whose copy of the system prompt has drifted from the one
\* in _build_prompts.
node_prompt_Drifted(st) ==
    [system_prompt |-> <<"SYS: Korean legal assistant\n">>,
     user_prompt |-> UserPrompt(st.question, Get(st, "context", <<>>))]

\* _node_prompt: the prompt pair from state["question"] and state.get("context", "").
node_prompt(st) ==
    [system_prompt |-> SystemPrompt,
     user_prompt |-> UserPrompt(st.question, Get(st, "context", <<>>))]

\* The prompt stage: _node_prompt, or build_context's result given to
\* _build_prompts.
Prompt ==
    /\ pc = "prompt"
    /\ LET pair == IF req.entry \in GraphEntries THEN node_prompt(state)
                   ELSE build_prompts(state.question, state.context)
       IN  state' = Put(Put(state, "system_prompt", pair.system_prompt),
                        "user_prompt", pair.user_prompt)
    /\ pc' = Successor(req.entry, "prompt")
    /\ stageLog' = stageLog \o <<"prompt:start", "prompt:end">>
    /\ UNCHANGED <<frame, cfg, osenv, svc, wire, req, embedLoop, calls, replies, outcome,
                   gen, http, prev>>

\* The generate stage: call_openai_chat, that is _openai_client and one
\* chat completion.
Generate ==
    /\ pc = "generate"
    /\ LET log == stageLog \o <<"generate:start">>
       IN  IF cfg.OPENAI_API_KEY_LAWBOT = ""
           THEN /\ Raised("generate", "config", log)
                /\ UNCHANGED <<state, calls, replies>>
           ELSE /\ calls' = calls \o <<[gw |-> "chat", stream |-> FALSE,
                                        system_prompt |-> state.system_prompt,
                                        user_prompt |-> state.user_prompt]>>
                /\ \E ok \in BOOLEAN, content \in Contents :
                      IF ok
                      THEN /\ state' = Put(state, "answer", Strip(Or(content, <<>>)))
                           /\ pc' = Successor(req.entry, "generate")
                           /\ stageLog' = log \o <<"generate:end">>
                           /\ outcome' = outcome
                           /\ replies' = replies \o <<Answered(content)>>
                      ELSE /\ Raised("generate", "transport", log)
                           /\ replies' = replies \o <<Failed>>
                           /\ state' = state
    /\ UNCHANGED <<frame, cfg, osenv, svc, wire, req, embedLoop, gen, http, prev>>

\* ------------------------------------------------------ the entry's return

\* The graph's invoke has returned (or the last statement group is done): the
\* sync functions return (answer, points); the stream functions call
\* call_openai_chat_stream, which only creates the generator, and return
\* (gen, points).
\* A call_openai_chat_stream that is an ordinary function returning an
\* iterator: its first lines, the key check among them, run in the call.
StreamGenerator_StartsInCall ==
    IF cfg.OPENAI_API_KEY_LAWBOT = ""
    THEN [NoGen EXCEPT !.st = "failed"]
    ELSE [NoGen EXCEPT !.st = "running", !.conn = "open"]

\* gen = call_openai_chat_stream(system_prompt, user_prompt): the function
\* has a yield, so the call runs none of its body and returns a generator
\* that has not started.
StreamGenerator == [NoGen EXCEPT !.st = "created"]

Return ==
    /\ pc = "END"
    /\ pc' = "returned"
    /\ outcome' = [outcome EXCEPT !.returned = TRUE,
                                  !.answer = Get(state, "answer", <<>>),
                                  !.points = Get(state, "points", <<>>)]
    /\ gen' = IF req.entry \in StreamEntries
              THEN StreamGenerator
              ELSE gen
    /\ UNCHANGED <<frame, cfg, osenv, svc, wire, req, state, embedLoop, stageLog, calls,
                   replies, http, prev>>

\* ------------------------------------------------------------ the handlers

\* LawSource(id=p.get("id", ""), score=float(p.get("score", 0.0)), ...)
LawSource(p) ==
    [id |-> Get(p, "id", ""),
     score |-> PyFloat(Get(p, "score", 0)),
     dataset |-> Get(p, "dataset", None),
     category |-> Get(p, "category", None),
     question |-> Get(p, "question", None),
     answerSnippet |-> Get(p, "answerSnippet", None),
     docNo |-> Get(p, "docNo", None)]

\* sources = [LawSource(...) for p in points]
SourcesOf(points) == [i \in 1..Len(points) |-> LawSource(points[i])]

\* chat_law, chat_law_graph: the response from (answer, points).
HandlerRespond ==
    /\ pc = "returned"
    /\ req.via = "http"
    /\ req.entry \in SyncEntries
    /\ http' = [http EXCEPT !.status = 200, !.answer = outcome.answer,
                            !.sources = SourcesOf(outcome.points),
                            !.complete = TRUE]
    /\ pc' = "done"
    /\ UNCHANGED <<frame, cfg, osenv, svc, wire, req, state, embedLoop, stageLog, calls,
                   replies, outcome, gen, prev>>

\* No handler catches: an exception of the entry operation is answered 500.
HandlerError ==
    /\ pc = "raised"
    /\ req.via = "http"
    /\ http' = [http EXCEPT !.status = 500, !.complete = TRUE]
    /\ pc' = "done"
    /\ UNCHANGED <<frame, cfg, osenv, svc, wire, req, state, embedLoop, stageLog, calls,
                   replies, outcome, gen, prev>>

\* chat_law_stream, chat_law_graph_stream: out is the (gen, points) tuple,
\* gen = out[0] goes into a StreamingResponse, which starts the response
\* (status 200) and then iterates gen.
HandlerStream ==
    /\ pc = "returned"
    /\ req.via = "http"
    /\ req.entry \in StreamEntries
    /\ http' = [http EXCEPT !.status = 200]
    /\ pc' = "streaming"
    /\ UNCHANGED <<frame, cfg, osenv, svc, wire, req, state, embedLoop, stageLog, calls,
                   replies, outcome, gen, prev>>

\* -------------------------------------------------------------- the stream

\* The generator is being iterated: by the StreamingResponse, or by the
\* caller of the stream function.
Consuming ==
    \/ pc = "streaming"
    \/ pc = "returned" /\ req.via = "direct" /\ req.entry \in StreamEntries

\* "for chunk in stream: ... if not delta: continue ... yield delta": the
\* index of the next chunk after pos with a delta, 0 when there is none.
RECURSIVE NextDelta(_, _)
NextDelta(chunks, pos) ==
    IF pos >= Len(chunks) THEN 0
    ELSE IF chunks[pos + 1] # "" THEN pos + 1
    ELSE NextDelta(chunks, pos + 1)

\* A loop that takes the chunk after the one it should resume with: the
\* fragment right after the generator's position is lost.
Advance_SkipsOne(chunks, pos) ==
    LET j == NextDelta(chunks, pos + 1)
    IN  IF j = 0
        THEN /\ gen' = [gen EXCEPT !.st = "done", !.chunks = chunks,
                                   !.pos = Len(chunks), !.conn = "closed"]
             /\ http' = IF req.via = "http"
                        THEN [http EXCEPT !.complete = TRUE] ELSE http
        ELSE /\ gen' = [gen EXCEPT !.st = "running", !.chunks = chunks, !.pos = j,
                                   !.delivered = @ \o <<chunks[j]>>,
                                   !.conn = "open"]
             /\ http' = IF req.via = "http"
                        THEN [http EXCEPT !.body = @ \o <<chunks[j]>>] ELSE http

\* The generator's state after running from position pos of chunks to its
\* next yield or its end, and the response that forwards it.  The streaming
\* request's connection is open while the generator rests at a yield; the
\* end of the stream gives it back.
Advance(chunks, pos) ==
    LET j == NextDelta(chunks, pos)
    IN  IF j = 0
        THEN /\ gen' = [gen EXCEPT !.st = "done", !.chunks = chunks,
                                   !.pos = Len(chunks), !.conn = "closed"]
             /\ http' = IF req.via = "http"
                        THEN [http EXCEPT !.complete = TRUE] ELSE http
        ELSE /\ gen' = [gen EXCEPT !.st = "running", !.chunks = chunks, !.pos = j,
                                   !.delivered = @ \o <<chunks[j]>>,
                                   !.conn = "open"]
             /\ http' = IF req.via = "http"
                        THEN [http EXCEPT !.body = @ \o <<chunks[j]>>] ELSE http

\* A generator that catches the error and ends the stream as if exhausted.
GenFails_EndsStream ==
    /\ gen' = [gen EXCEPT !.st = "done",
                          !.conn = IF @ = "open" THEN "closed" ELSE @]
    /\ http' = IF req.via = "http" THEN [http EXCEPT !.complete = TRUE] ELSE http

\* The generator raises: the exception reaches whoever called next().  An
\* error while reading the stream ends its connection.
GenFails ==
    /\ gen' = [gen EXCEPT !.st = "failed",
                          !.conn = IF @ = "open" THEN "closed" ELSE @]
    /\ http' = http

\* The first next() on the generator runs call_openai_chat_stream from its
\* first line: _openai_client, the streaming request, and the loop up to the
\* first yield.
PullFirst ==
    /\ Consuming
    /\ gen.st = "created"
    /\ IF cfg.OPENAI_API_KEY_LAWBOT = ""
       THEN /\ GenFails
            /\ UNCHANGED <<calls, replies>>
       ELSE /\ calls' = calls \o <<[gw |-> "chat", stream |-> TRUE,
                                    system_prompt |-> Get(state, "system_prompt", <<>>),
                                    user_prompt |-> Get(state, "user_prompt", <<>>)]>>
            /\ \E ok \in BOOLEAN, chunks \in ChunkLists :
                  IF ok THEN /\ Advance(chunks, 0)
                             /\ replies' = replies \o <<Answered(chunks)>>
                  ELSE /\ GenFails
                       /\ replies' = replies \o <<Failed>>
    /\ UNCHANGED <<frame, cfg, osenv, svc, wire, req, pc, state, embedLoop, stageLog,
                   outcome, prev>>

\* A later next(): the loop goes on to the next yield, to the end of the
\* stream, or to an error of the connection.
PullNext ==
    /\ Consuming
    /\ gen.st = "running"
    /\ \E ok \in BOOLEAN :
          IF ok THEN Advance(gen.chunks, gen.pos) ELSE GenFails
    /\ UNCHANGED <<frame, cfg, osenv, svc, wire, req, pc, state, embedLoop, stageLog,
                   calls, replies, outcome, prev>>

\* The consumer stops iterating: the caller drops or closes the generator, or
\* the client of a streamed response disconnects.  A generator that never
\* ran is just discarded; one that rests at its yield gets GeneratorExit
\* there and ends without another chunk read.
Abandon ==
    /\ Consuming
    /\ gen.st \in {"created", "running"}
    /\ gen' = [gen EXCEPT !.st = "closed"]
    /\ UNCHANGED <<frame, cfg, osenv, svc, wire, req, pc, state, embedLoop, stageLog,
                   calls, replies, outcome, http, prev>>

\* A generator that registers its stream in a module-level list: the
\* reference outlives the generator and the connection is never given back.
Released_KeptInRegistry(g) == g

\* client and stream are local variables of call_openai_chat_stream and
\* nothing else refers to them (no module-level client, no registry): once
\* the generator is gone they are unreachable, and the stream's connection
\* is closed with them.
Released(g) == [g EXCEPT !.conn = "closed"]

\* The runtime finalizes the abandoned generator: its frame is cleared and
\* what only the frame referred to is released.
Finalize ==
    /\ gen.st = "closed"
    /\ gen.conn = "open"
    /\ gen' = Released(gen)
    /\ UNCHANGED <<frame, cfg, osenv, svc, wire, req, pc, state, embedLoop, stageLog,
                   calls, replies, outcome, http, prev>>

\* ------------------------------------------------------------ the next call

\* The entry operations of the other mode.
OtherMode(e) == IF e \in SyncEntries THEN StreamEntries ELSE SyncEntries

\* The search requests among the calls made.
Searches(cs) == SelectSeq(cs, LAMBDA c : c.gw = "search")

\* What is kept of a call for comparison with the next one.
Remembered ==
    [search |-> Searches(calls), points |-> outcome.points,
     entry |-> req.entry, state |-> state,
     calls |-> calls, replies |-> replies, outcome |-> outcome]

\* The caller calls again, with the same question and top_k, an entry
\* operation of the other mode; what the first call searched and returned is
\* kept for comparison.
CallAgain ==
    /\ pc = "returned"
    /\ req.via = "direct"
    /\ req.callNo = 1
    /\ gen.st \in {"none", "created"}
    /\ \E e \in OtherMode(req.entry) :
          req' = [req EXCEPT !.entry = e, !.callNo = 2]
    /\ prev' = Remembered
    /\ pc' = "entry"
    /\ state' = EmptyDict
    /\ embedLoop' = NoLoop
    /\ stageLog' = <<>>
    /\ calls' = <<>>
    /\ replies' = <<>>
    /\ outcome' = NoOutcome
    /\ gen' = NoGen
    /\ wire' = <<>>
    /\ UNCHANGED <<frame, cfg, osenv, svc, http>>

\* The same operation in the other implementation: the graph function for
\* the function of law_rag.py, and the reverse.
Counterpart(e) ==
    CASE e = "search_law_with_answer" -> "answer_law_question_graph"
      [] e = "stream_law_answer" -> "stream_law_answer_graph"
      [] e = "answer_law_question_graph" -> "search_law_with_answer"
      [] e = "stream_law_answer_graph" -> "stream_law_answer"

\* The caller, after a call that returned or raised, makes the same call
\* (same question and top_k, same settings) through the other
\* implementation; the first call's requests, the services' answers and its
\* outcome are kept for comparison.
CallCounterpart ==
    /\ pc \in {"returned", "raised"}
    /\ req.via = "direct"
    /\ req.callNo = 1
    /\ gen.st \in {"none", "created", "done"}
    /\ req' = [req EXCEPT !.entry = Counterpart(req.entry), !.callNo = 2]
    /\ prev' = Remembered
    /\ pc' = "entry"
    /\ state' = EmptyDict
    /\ embedLoop' = NoLoop
    /\ stageLog' = <<>>
    /\ calls' = <<>>
    /\ replies' = <<>>
    /\ outcome' = NoOutcome
    /\ gen' = NoGen
    /\ wire' = <<>>
    /\ UNCHANGED <<frame, cfg, osenv, svc, http>>

Next ==
    \/ HttpValidate
    \/ Enter
    \/ EmbedKure
    \/ EmbedOpenAIStart
    \/ EmbedAttempt
    \/ Retrieve
    \/ Prompt
    \/ Generate
    \/ Return
    \/ HandlerRespond
    \/ HandlerError
    \/ HandlerStream
    \/ PullFirst
    \/ PullNext
    \/ Abandon
    \/ Finalize
    \/ CallAgain

Spec == Init /\ [][Next]_vars

\* ------------------------------------------------- the streaming requests

\* The calls of the two streaming entry operations, with what follows them
\* up to the end of the stream.
InitStream ==
    /\ Init
    /\ req.entry \in StreamEntries

NextStream ==
    \/ HttpValidate
    \/ Enter
    \/ EmbedKure
    \/ EmbedOpenAIStart
    \/ EmbedAttempt
    \/ Retrieve
    \/ Prompt
    \/ Return
    \/ HandlerError
    \/ HandlerStream
    \/ PullFirst
    \/ PullNext
    \/ Abandon
    \/ Finalize

\* Finalization is the runtime's own step and needs nobody's cooperation: a
\* generator nobody refers to is finalized, so the step, once possible, is
\* taken.  Nothing is assumed of the consumer, which may pull or stop at
\* any time, nor of the services.
SpecStream == InitStream /\ [][NextStream]_vars /\ WF_vars(Finalize)

\* ------------------------------------------- the two implementations

\* Calls made by a caller in the process, not over HTTP.
InitPair ==
    /\ Init
    /\ req.via = "direct"

\* A call of one implementation followed by the same call of the other.
NextPair ==
    \/ Enter
    \/ EmbedKure
    \/ EmbedOpenAIStart
    \/ EmbedAttempt
    \/ Retrieve
    \/ Prompt
    \/ Generate
    \/ Return
    \/ PullFirst
    \/ PullNext
    \/ CallCounterpart

SpecPair == InitPair /\ [][NextPair]_vars

\* ------------------------------------------- embed_texts_openai on its own

\* The texts a caller passes: a letter, and a newline (cleaned to " ").
EmbedTexts == {<<"a">>, <<"\n">>}
\* texts: every list of at most MaxTexts of them.
TextLists == UNION {[1..n -> EmbedTexts] : n \in 0..MaxTexts}
\* request_batch_size: negative, zero, and up to MaxBatch.
BatchSizes == -1..MaxBatch
\* retry: from no attempt at all to the default.
RetrySettings == 0..Retry
\* What an embedding request can fail with.
Errors == {"timeout", "rate_limit"}

\* The embedding the backend computes for one input text: a function of the
\* text sent.  resp.data holds one per element of input, in input order.
EmbeddingOf(s) == <<"embedding of", s>>
EmbeddingsOf(chunk) == [i \in 1..Len(chunk) |-> EmbeddingOf(chunk[i])]

\* cleaned[start:start + request_batch_size], start counted from 0
BatchOf(cleaned, start, size) ==
    SubSeq(cleaned, start + 1,
           IF start + size < Len(cleaned) THEN start + size ELSE Len(cleaned))

\* time.sleep(0.8 * attempt), in tenths of a second.
SleepTenths(attempt) == 8 * attempt

\* A loop that waits after every failed attempt, the last one too.
RetriesLeft_Always(attempt, retry) == TRUE

\* "if attempt < retry": another attempt follows, after a wait.
RetriesLeft(attempt, retry) == attempt < retry

InitEmbed ==
    /\ frame \in [fn : {"embed_texts_openai"}, texts : TextLists,
                  request_batch_size : BatchSizes, retry : RetrySettings,
                  key : KeyValues, pc : {"call"}, cleaned : {<<>>},
                  start : {0}, attempt : {0}, last_err : {""}, out : {<<>>},
                  log : {<<>>}, raised : {""}, cause : {""}]
    /\ cfg = [QDRANT_URL |-> "", QDRANT_COLLECTION_NAME |-> "",
              QDRANT_COLLECTION_OAI |-> "", EMBED_PROVIDER |-> "openai",
              OPENAI_API_KEY_LAWBOT |-> frame.key]
    /\ osenv = [EMBED_PROVIDER |-> "openai", OPENAI_API_KEY_LAWBOT |-> frame.key,
                OPENAI_API_KEY |-> ""]
    /\ svc = [embedData |-> <<>>, matches |-> <<>>]
    /\ req = [entry |-> "none", via |-> "direct", question |-> <<>>,
              top_k |-> 0, callNo |-> 1]
    /\ pc = "none"
    /\ state = EmptyDict
    /\ embedLoop = NoLoop
    /\ stageLog = <<>>
    /\ calls = <<>>
    /\ replies = <<>>
    /\ outcome = NoOutcome
    /\ gen = NoGen
    /\ http = NoHttp
    /\ prev = NoPrev
    /\ wire = <<>>

\* The variables of the request pipeline, which a function run on its own
\* leaves alone.
pipeline ==
    <<cfg, osenv, svc, req, pc, state, embedLoop, stageLog, calls, replies,
      outcome, gen, http, prev, wire>>

\* embed_texts_openai up to its batch loop: the empty input returns at once;
\* _get_oai_client raises without a key; cleaned is built.
EmbedOpenAICall ==
    /\ frame.fn = "embed_texts_openai"
    /\ frame.pc = "call"
    /\ frame' =
          IF frame.texts = <<>> THEN [frame EXCEPT !.pc = "returned"]
          ELSE IF EmbedApiKey = ""
          THEN [frame EXCEPT !.pc = "raised", !.raised = "RuntimeError(key)"]
          ELSE [frame EXCEPT !.pc = "batch",
                             !.cleaned = [i \in 1..Len(frame.texts) |->
                                             Cleaned(frame.texts[i])]]
    /\ UNCHANGED pipeline

\* "for start in range(0, len(cleaned), request_batch_size)" at position
\* start: range raises for a step of 0 and is empty for a negative step; at
\* the end of the range the function returns out; "for attempt in range(1,
\* retry + 1)" has no pass when retry < 1 and the batch is over with
\* last_err None.
EmbedOpenAIBatch ==
    /\ frame.fn = "embed_texts_openai"
    /\ frame.pc = "batch"
    /\ frame' =
          IF frame.request_batch_size = 0
          THEN [frame EXCEPT !.pc = "raised", !.raised = "ValueError"]
          ELSE IF frame.request_batch_size < 0 \/ frame.start >= Len(frame.cleaned)
          THEN [frame EXCEPT !.pc = "returned"]
          ELSE IF frame.retry < 1
          THEN [frame EXCEPT !.start = @ + frame.request_batch_size,
                             !.last_err = ""]
          ELSE [frame EXCEPT !.pc = "attempt", !.attempt = 1, !.last_err = ""]
    /\ UNCHANGED pipeline

\* One pass of the attempt loop: the request succeeds (out is extended, the
\* loop is left, the next batch follows) or fails (last_err is kept; a wait
\* and another pass follow, or the loop is over and "raise RuntimeError(...)
\* from last_err").
EmbedOpenAIRequest ==
    /\ frame.fn = "embed_texts_openai"
    /\ frame.pc = "attempt"
    /\ LET chunk == BatchOf(frame.cleaned, frame.start, frame.request_batch_size)
           ev == [ev |-> "request", start |-> frame.start,
                  attempt |-> frame.attempt, input |-> chunk]
       IN  \E r \in {"ok"} \cup Errors :
              LET f == [frame EXCEPT !.log = @ \o <<ev @@ [result |-> r]>>]
              IN  IF r = "ok"
                  THEN frame' = [f EXCEPT !.out = @ \o EmbeddingsOf(chunk),
                                          !.last_err = "",
                                          !.start = @ + frame.request_batch_size,
                                          !.pc = "batch"]
                  ELSE IF RetriesLeft(frame.attempt, frame.retry)
                  THEN frame' = [f EXCEPT !.last_err = r, !.pc = "wait"]
                  ELSE frame' = [f EXCEPT !.last_err = r, !.pc = "raised",
                                          !.raised = "RuntimeError",
                                          !.cause = r]
    /\ UNCHANGED pipeline

\* time.sleep(0.8 * attempt), then the next pass of the attempt loop.
EmbedOpenAISleep ==
    /\ frame.fn = "embed_texts_openai"
    /\ frame.pc = "wait"
    /\ frame' = [frame EXCEPT
                    !.log = @ \o <<[ev |-> "sleep", start |-> frame.start,
                                    attempt |-> frame.attempt,
                                    tenths |-> SleepTenths(frame.attempt)]>>,
                    !.attempt = @ + 1,
                    !.pc = "attempt"]
    /\ UNCHANGED pipeline

NextEmbed ==
    \/ EmbedOpenAICall
    \/ EmbedOpenAIBatch
    \/ EmbedOpenAIRequest
    \/ EmbedOpenAISleep

SpecEmbed == InitEmbed /\ [][NextEmbed]_vars

\* ------------------------------------- build_context_from_points on its own

\* The points given: with and without a question, and with no answer, an
\* answer of one character, of three, and of two inside whitespace.
ContextPoints ==
    {[id |-> "u"], [id |-> "u", question |-> None]}
    \cup [id : {"u"}, question : {<<"q">>},
          answer : {None, <<"a">>, <<"a", "b", "c">>, <<" ", "a", "b", "\n">>}]
    \cup [id : {"u"}, answer : {<<"a", "b", "c">>}]
\* points: every list of at most MaxPoints of them.
PointLists == UNION {[1..n -> ContextPoints] : n \in 0..MaxPoints}
\* max_chars_per_doc: negative, zero, and up to MaxCap.
Caps == -1..MaxCap

InitContext ==
    /\ frame \in [fn : {"build_context_from_points"}, points : PointLists,
                  max_chars_per_doc : Caps, pc : {"loop"}, i : {1},
                  lines : {<<>>}, out : {<<>>}]
    /\ cfg = [QDRANT_URL |-> "", QDRANT_COLLECTION_NAME |-> "",
              QDRANT_COLLECTION_OAI |-> "", EMBED_PROVIDER |-> "openai",
              OPENAI_API_KEY_LAWBOT |-> ""]
    /\ osenv = [EMBED_PROVIDER |-> "openai", OPENAI_API_KEY_LAWBOT |-> "",
                OPENAI_API_KEY |-> ""]
    /\ svc = [embedData |-> <<>>, matches |-> <<>>]
    /\ req = [entry |-> "none", via |-> "direct", question |-> <<>>,
              top_k |-> 0, callNo |-> 1]
    /\ pc = "none"
    /\ state = EmptyDict
    /\ embedLoop = NoLoop
    /\ stageLog = <<>>
    /\ calls = <<>>
    /\ replies = <<>>
    /\ outcome = NoOutcome
    /\ gen = NoGen
    /\ http = NoHttp
    /\ prev = NoPrev
    /\ wire = <<>>

\* One pass of "for i, p in enumerate(points, start=1)".
ContextLoop ==
    /\ frame.fn = "build_context_from_points"
    /\ frame.pc = "loop"
    /\ frame.i <= Len(frame.points)
    /\ frame' = [frame EXCEPT
                    !.lines = @ \o SectionLines(frame.points[frame.i], frame.i,
                                                frame.max_chars_per_doc),
                    !.i = @ + 1]
    /\ UNCHANGED pipeline

\* The loop is over: return "\n".join(lines).strip()
ContextReturn ==
    /\ frame.fn = "build_context_from_points"
    /\ frame.pc = "loop"
    /\ frame.i > Len(frame.points)
    /\ frame' = [frame EXCEPT !.out = ContextText(frame.lines), !.pc = "returned"]
    /\ UNCHANGED pipeline

NextContext ==
    \/ ContextLoop
    \/ ContextReturn

SpecContext == InitContext /\ [][NextContext]_vars

\* ------------------------------------------------- concurrent invocations

\* The handlers are plain "def" functions: FastAPI runs each request on a
\* thread of its pool, so two invocations of the entry operations interleave
\* at every step.  Two invocations are followed.
Invocations == {1, 2}

\* The questions of concurrent callers.
ConcQuestions == {<<"q">>, <<"r">>}

\* A state dict kept in one module-level variable that every call uses.
StateSlot_ModuleLevel(t) == 1

\* "state: GraphState = {...}" and the local variables of the direct
\* functions: each invocation t creates its own.
StateSlot(t) == t

\* The query vector of a question: model.encode of the KURE model, or the
\* embedding the OpenAI backend computes for the cleaned text.
QueryVecOf(provider, q) ==
    IF provider = "kure" THEN <<"kure vector of", q>>
    ELSE EmbeddingOf(Cleaned(q))

\* What the collection ranks first for a query vector, best first: the
\* ranking differs between the two questions.
MatchesFor(vec) ==
    IF vec[2] = <<"q">> THEN Ranked
    ELSE [n \in 1..MaxHits |-> Ranked[MaxHits + 1 - n]]

\* The "result" of the search answer for a vector and a limit of at least 1.
SearchResultFor(vec, limit) ==
    SubSeq(MatchesFor(vec), 1, IF limit < MaxHits THEN limit ELSE MaxHits)

\* choices[0].message.content of the completion for a user prompt.
ChatContentFor(user_prompt) == <<" ", "answer to: ">> \o user_prompt

InitConcurrent ==
    /\ frame \in [fn : {"concurrent"},
                  inv : [Invocations ->
                            [entry : Entries, question : ConcQuestions,
                             top_k : 1..MaxTopK, pc : {"entry"},
                             result : {<<>>}]],
                  states : [Invocations -> {EmptyDict}],
                  kure : {[model |-> 0, loads |-> 0], [model |-> 1, loads |-> 1]},
                  session : {[pooled |-> 0]}]
    /\ osenv \in [EMBED_PROVIDER : ProviderValues, OPENAI_API_KEY_LAWBOT : {"sk"},
                  OPENAI_API_KEY : {""}]
    /\ cfg = [QDRANT_URL |-> "http://qdrant",
              QDRANT_COLLECTION_NAME |-> "law_qa_v1",
              QDRANT_COLLECTION_OAI |-> "KLAC_BASIC_1_OAI_1536",
              EMBED_PROVIDER |-> osenv.EMBED_PROVIDER,
              OPENAI_API_KEY_LAWBOT |-> "sk"]
    /\ svc = [embedData |-> <<>>, matches |-> <<>>]
    /\ req = [entry |-> "none", via |-> "direct", question |-> <<>>,
              top_k |-> 0, callNo |-> 1]
    /\ pc = "none"
    /\ state = EmptyDict
    /\ embedLoop = NoLoop
    /\ stageLog = <<>>
    /\ calls = <<>>
    /\ replies = <<>>
    /\ outcome = NoOutcome
    /\ gen = NoGen
    /\ http = NoHttp
    /\ prev = NoPrev
    /\ wire = <<>>

\* The state invocation t works on, and invocation t's step to position p
\* with that state replaced by st.
StateOf(t) == frame.states[StateSlot(t)]
ConcStep(t, p, st) ==
    [frame EXCEPT !.inv[t].pc = p, !.states[StateSlot(t)] = st]

\* The entry operation is called.
ConcEnter(t) ==
    /\ frame.fn = "concurrent"
    /\ frame.inv[t].pc = "entry"
    /\ frame' = ConcStep(t, EntryPoint,
                         InitialState(frame.inv[t].entry, frame.inv[t].question,
                                      frame.inv[t].top_k))
    /\ UNCHANGED pipeline

\* _get_kure_model: "if _KURE_MODEL is not None: return _KURE_MODEL".
ConcKureCheck(t) ==
    /\ frame.fn = "concurrent"
    /\ frame.inv[t].pc = "embed"
    /\ osenv.EMBED_PROVIDER = "kure"
    /\ frame' = [frame EXCEPT !.inv[t].pc = IF frame.kure.model # 0
                                            THEN "encode" ELSE "kure_load"]
    /\ UNCHANGED pipeline

\* _get_kure_model: "_KURE_MODEL = SentenceTransformer(model_name)", after
\* a check that found None: a model is constructed and stored.
ConcKureLoad(t) ==
    /\ frame.fn = "concurrent"
    /\ frame.inv[t].pc = "kure_load"
    /\ frame' = [frame EXCEPT !.inv[t].pc = "encode",
                              !.kure = [model |-> frame.kure.loads + 1,
                                        loads |-> frame.kure.loads + 1]]
    /\ UNCHANGED pipeline

\* The embed stage writes query_vec: model.encode, or embed_texts_openai.
ConcEmbed(t) ==
    /\ frame.fn = "concurrent"
    /\ \/ frame.inv[t].pc = "encode"
       \/ frame.inv[t].pc = "embed" /\ osenv.EMBED_PROVIDER # "kure"
    /\ frame' = ConcStep(t, Successor(frame.inv[t].entry, "embed"),
                         Put(StateOf(t), "query_vec",
                             QueryVecOf(osenv.EMBED_PROVIDER,
                                        StateOf(t).question)))
    /\ UNCHANGED pipeline

\* The retrieve stage: the search goes through _QDRANT_SESSION, which keeps
\* the connection; a failed request raises.
ConcRetrieve(t) ==
    /\ frame.fn = "concurrent"
    /\ frame.inv[t].pc = "retrieve"
    /\ LET st == StateOf(t)
           limit == SearchLimit(Get(st, "top_k", TopKDefault))
           col == SearchCollection(IF frame.inv[t].entry \in DirectEntries
                                   THEN st.active_col ELSE "")
           pts == PointsOf(SearchResultFor(st.query_vec, limit), col)
       IN  \E ok \in BOOLEAN :
              IF ok
              THEN frame' = [ConcStep(t, Successor(frame.inv[t].entry, "retrieve"),
                                      Put(Put(st, "points", pts), "context",
                                          build_context_from_points(pts, MaxCharsPerDoc)))
                             EXCEPT !.session.pooled = 1]
              ELSE frame' = [frame EXCEPT !.inv[t].pc = "raised"]
    /\ UNCHANGED pipeline

\* The prompt stage.
ConcPrompt(t) ==
    /\ frame.fn = "concurrent"
    /\ frame.inv[t].pc = "prompt"
    /\ LET st == StateOf(t)
           pair == IF frame.inv[t].entry \in GraphEntries THEN node_prompt(st)
                   ELSE build_prompts(st.question, st.context)
       IN  frame' = ConcStep(t, Successor(frame.inv[t].entry, "prompt"),
                             Put(Put(st, "system_prompt", pair.system_prompt),
                                 "user_prompt", pair.user_prompt))
    /\ UNCHANGED pipeline

\* The generate stage.
ConcGenerate(t) ==
    /\ frame.fn = "concurrent"
    /\ frame.inv[t].pc = "generate"
    /\ LET st == StateOf(t)
       IN  frame' = ConcStep(t, Successor(frame.inv[t].entry, "generate"),
                             Put(st, "answer",
                                 Strip(Or(ChatContentFor(st.user_prompt), <<>>))))
    /\ UNCHANGED pipeline

\* The entry operation returns (answer, points), or (gen, points) with a
\* generator that holds the two prompts.
ConcReturn(t) ==
    /\ frame.fn = "concurrent"
    /\ frame.inv[t].pc = "END"
    /\ LET st == StateOf(t)
       IN  frame' = [frame EXCEPT
                        !.inv[t].pc = "returned",
                        !.inv[t].result =
                           [answer |-> Get(st, "answer", <<>>),
                            points |-> Get(st, "points", <<>>),
                            gen |-> IF frame.inv[t].entry \in StreamEntries
                                    THEN <<st.system_prompt, st.user_prompt>>
                                    ELSE <<>>]]
    /\ UNCHANGED pipeline

NextConcurrent ==
    \E t \in Invocations :
        \/ ConcEnter(t)
        \/ ConcKureCheck(t)
        \/ ConcKureLoad(t)
        \/ ConcEmbed(t)
        \/ ConcRetrieve(t)
        \/ ConcPrompt(t)
        \/ ConcGenerate(t)
        \/ ConcReturn(t)

SpecConcurrent == InitConcurrent /\ [][NextConcurrent]_vars

\* ------------------------------------- the streaming handlers on their own

\* The longest tuple a streaming entry operation is taken to return.
MaxTuple == 3

\* Python values an entry operation could return or put in a tuple: a
\* generator of fragments, a list of points, None.
PyGenerator == [type |-> "generator", items |-> <<"f1", "f2">>]
PyList == [type |-> "list", items |-> <<"p1">>]
PyNone == [type |-> "NoneType", items |-> <<>>]
Members == {PyGenerator, PyList, PyNone}
PyTuple(t) == [type |-> "tuple", items |-> t]
Tuples == {PyTuple(t) : t \in UNION {[1..n -> Members] : n \in 0..MaxTuple}}

\* What the handler may find in out: the (gen, points) pair both entry
\* operations return today, and every other value of these shapes.
Returned == Tuples \cup Members

\* What a handler does with out: it raises, or it hands gen to a
\* StreamingResponse.
HandlerRaises(error) == [raised |-> error, gen |-> PyNone]
HandlerStreams(g) == [raised |-> "", gen |-> g]

\* chat_law_stream: "if isinstance(out, tuple): gen = out[0] else: gen = out";
\* out[0] of the empty tuple raises IndexError.
chat_law_stream(out) ==
    IF out.type = "tuple"
    THEN IF out.items = <<>> THEN HandlerRaises("IndexError")
         ELSE HandlerStreams(out.items[1])
    ELSE HandlerStreams(out)

\* chat_law_graph_stream: "if not isinstance(out, tuple) or len(out) == 0:
\* raise RuntimeError(...)", then gen = out[0].
chat_law_graph_stream(out) ==
    IF out.type # "tuple" \/ Len(out.items) = 0
    THEN HandlerRaises("RuntimeError")
    ELSE HandlerStreams(out.items[1])

StreamHandlers == {"chat_law_stream", "chat_law_graph_stream"}

InitHandler ==
    /\ frame \in [fn : {"stream_handler"}, handler : StreamHandlers,
                  out : Returned, pc : {"call"}, raised : {""}, gen : {PyNone},
                  status : {0}, body : {<<>>}, broken : {FALSE}]
    /\ cfg = [QDRANT_URL |-> "", QDRANT_COLLECTION_NAME |-> "",
              QDRANT_COLLECTION_OAI |-> "", EMBED_PROVIDER |-> "openai",
              OPENAI_API_KEY_LAWBOT |-> ""]
    /\ osenv = [EMBED_PROVIDER |-> "openai", OPENAI_API_KEY_LAWBOT |-> "",
                OPENAI_API_KEY |-> ""]
    /\ svc = [embedData |-> <<>>, matches |-> <<>>]
    /\ req = [entry |-> "none", via |-> "http", question |-> <<>>,
              top_k |-> 0, callNo |-> 1]
    /\ pc = "none"
    /\ state = EmptyDict
    /\ embedLoop = NoLoop
    /\ stageLog = <<>>
    /\ calls = <<>>
    /\ replies = <<>>
    /\ outcome = NoOutcome
    /\ gen = NoGen
    /\ http = NoHttp
    /\ prev = NoPrev
    /\ wire = <<>>

\* The handler runs on out: an exception is answered 500; a
\* StreamingResponse starts the response with status 200.
StreamHandlerCall ==
    /\ frame.fn = "stream_handler"
    /\ frame.pc = "call"
    /\ LET r == IF frame.handler = "chat_law_stream"
                THEN chat_law_stream(frame.out)
                ELSE chat_law_graph_stream(frame.out)
       IN  frame' = IF r.raised # ""
                    THEN [frame EXCEPT !.pc = "done", !.raised = r.raised,
                                       !.status = 500]
                    ELSE [frame EXCEPT !.pc = "sending", !.gen = r.gen,
                                       !.status = 200]
    /\ UNCHANGED pipeline

\* The StreamingResponse iterates gen and sends what it yields: the
\* fragments of a generator, one at a time; anything else breaks the
\* response after its start (None is not iterable, a list of points yields
\* no text).
StreamHandlerSend ==
    /\ frame.fn = "stream_handler"
    /\ frame.pc = "sending"
    /\ frame' =
          IF frame.gen.type # "generator"
          THEN [frame EXCEPT !.pc = "done", !.broken = TRUE]
          ELSE IF Len(frame.body) < Len(frame.gen.items)
          THEN [frame EXCEPT !.body = @ \o <<frame.gen.items[Len(@) + 1]>>]
          ELSE [frame EXCEPT !.pc = "done"]
    /\ UNCHANGED pipeline

NextHandler ==
    \/ StreamHandlerCall
    \/ StreamHandlerSend

SpecHandler == InitHandler /\ [][NextHandler]_vars

\* ------------------------------------------- the retrieval chain on its own

\* law_rag_chain._embed_question: "if not vecs: return []", else vecs[0].
embed_question(vecs) == IF vecs = <<>> THEN <<>> ELSE vecs[1]

\* One element of _http_search_points_by_vector's points, from one result
\* item.
ChainPointOf(item, collection) ==
    [id |-> Get(item, "id", ""),
     score |-> PyFloat(IF "score" \in DOMAIN item THEN item.score ELSE 0),
     payload |-> IF "payload" \in DOMAIN item THEN item.payload ELSE EmptyDict,
     collection |-> collection]

\* build_retrieval_chain(top_k).invoke(question): the chain before its first
\* step, for every setting and every content of the services.
InitChain ==
    /\ osenv \in [EMBED_PROVIDER : ProviderValues,
                   OPENAI_API_KEY_LAWBOT : KeyValues,
                   OPENAI_API_KEY : KeyValues]
    /\ cfg \in [QDRANT_URL : UrlValues,
                 QDRANT_COLLECTION_NAME : CollectionNameValues,
                 QDRANT_COLLECTION_OAI : CollectionOaiValues,
                 EMBED_PROVIDER : {osenv.EMBED_PROVIDER},
                 OPENAI_API_KEY_LAWBOT : {osenv.OPENAI_API_KEY_LAWBOT}]
    /\ svc \in [embedData : EmbedDatas, matches : MatchSets]
    /\ frame \in [fn : {"retrieval_chain"}, question : Questions,
                  top_k : TopKs, pc : {"embed_step"}, query_vec : {<<>>},
                  requests : {<<>>}, points : {<<>>}, raised : {""}]
    /\ req = [entry |-> "none", via |-> "direct", question |-> <<>>,
              top_k |-> 0, callNo |-> 1]
    /\ pc = "none"
    /\ state = EmptyDict
    /\ embedLoop = NoLoop
    /\ stageLog = <<>>
    /\ calls = <<>>
    /\ replies = <<>>
    /\ outcome = NoOutcome
    /\ gen = NoGen
    /\ http = NoHttp
    /\ prev = NoPrev
    /\ wire = <<>>

\* embed_step: _embed_question(question).  embed_texts([question]) raises
\* (no key, the backend fails on every attempt, the model fails) or returns
\* a list: the one vector of the KURE model, or what the backend's answer
\* holds.
ChainEmbedStep ==
    /\ frame.fn = "retrieval_chain"
    /\ frame.pc = "embed_step"
    /\ \E ok \in BOOLEAN :
          IF ~ok \/ (osenv.EMBED_PROVIDER # "kure" /\ EmbedApiKey = "")
          THEN frame' = [frame EXCEPT !.pc = "raised", !.raised = "embed_step"]
          ELSE LET vecs == IF osenv.EMBED_PROVIDER = "kure" THEN <<KureVec>>
                           ELSE svc.embedData
               IN  frame' = [frame EXCEPT !.pc = "search_step",
                                          !.query_vec = embed_question(vecs)]
    /\ UNCHANGED pipeline

\* search_step: _http_search_points_by_vector(query_vec, top_k=top_k).
ChainSearchStep ==
    /\ frame.fn = "retrieval_chain"
    /\ frame.pc = "search_step"
    /\ LET collection == active_collection_name(cfg)
           limit == frame.top_k
       IN  IF cfg.QDRANT_URL = "" \/ collection = ""
           THEN frame' = [frame EXCEPT !.pc = "raised", !.raised = "search_step"]
           ELSE \E ok \in BOOLEAN :
                   LET f == [frame EXCEPT !.requests =
                                @ \o <<[vector |-> frame.query_vec, limit |-> limit,
                                        collection |-> collection]>>]
                   IN  IF ok /\ limit >= 1
                       THEN frame' =
                              [f EXCEPT !.pc = "returned",
                                        !.points =
                                           [i \in 1..Len(QdrantResult(limit)) |->
                                               ChainPointOf(QdrantResult(limit)[i],
                                                            collection)]]
                       ELSE frame' = [f EXCEPT !.pc = "raised",
                                               !.raised = "search_step"]
    /\ UNCHANGED pipeline

NextChain ==
    \/ ChainEmbedStep
    \/ ChainSearchStep

SpecChain == InitChain /\ [][NextChain]_vars

\* --------------------------------------------- upsert_law_rows on its own

\* The longest list of rows given to upsert_law_rows.
MaxRows == 2

\* LawRow values: one data set and category; questions and answers with and
\* without the character "|".
LawRows ==
    [source_dataset : {"d"}, law_category : {"c"},
     question : {"x", "x|y"}, answer : {"z", "y|z"}]
RowLists == UNION {[1..n -> LawRows] : n \in 0..MaxRows}

\* raw = f"{r.source_dataset}|{r.law_category}|{r.question}|{r.answer}"
RawOf(r) ==
    r.source_dataset \o "|" \o r.law_category \o "|" \o r.question \o "|" \o r.answer

\* _make_point_id: the UUID made of the first 16 bytes of sha256(raw); a
\* function of raw alone, taken to differ whenever raw differs.
make_point_id(r) == "uuid:" \o RawOf(r)

\* texts: f"{r.question}\n\n{r.answer}"
TextOf(r) == r.question \o "\n\n" \o r.answer

\* The PointStruct upsert_law_rows builds for row r and its vector.
PointStruct(r, vec) ==
    [id |-> make_point_id(r), vector |-> vec,
     payload |-> [source_dataset |-> r.source_dataset,
                  law_category |-> r.law_category,
                  question |-> r.question, answer |-> r.answer,
                  embed_model |-> "text-embedding-3-small"]]

\* client.upsert(points): a point replaces the stored point of the same id;
\* of two points of one request with the same id the later one stays.
Upserted(stored, points) ==
    LET ids == {points[i].id : i \in DOMAIN points}
        last(id) == points[CHOOSE i \in DOMAIN points :
                             /\ points[i].id = id
                             /\ \A j \in DOMAIN points :
                                   points[j].id = id => j <= i]
    IN  {p \in stored : p.id \notin ids} \cup {last(id) : id \in ids}

InitIngest ==
    /\ frame \in [fn : {"upsert_law_rows"}, rows : RowLists,
                  batch_size : 1..MaxBatch, run : {1}, pc : {"call"},
                  start : {0}, stored : {{}}, after_first : {{}}]
    /\ cfg = [QDRANT_URL |-> "", QDRANT_COLLECTION_NAME |-> "",
              QDRANT_COLLECTION_OAI |-> "", EMBED_PROVIDER |-> "openai",
              OPENAI_API_KEY_LAWBOT |-> ""]
    /\ osenv = [EMBED_PROVIDER |-> "openai", OPENAI_API_KEY_LAWBOT |-> "",
                OPENAI_API_KEY |-> ""]
    /\ svc = [embedData |-> <<>>, matches |-> <<>>]
    /\ req = [entry |-> "none", via |-> "direct", question |-> <<>>,
              top_k |-> 0, callNo |-> 1]
    /\ pc = "none"
    /\ state = EmptyDict
    /\ embedLoop = NoLoop
    /\ stageLog = <<>>
    /\ calls = <<>>
    /\ replies = <<>>
    /\ outcome = NoOutcome
    /\ gen = NoGen
    /\ http = NoHttp
    /\ prev = NoPrev
    /\ wire = <<>>

\* upsert_law_rows up to its loop: "if not rows: return".
IngestCall ==
    /\ frame.fn = "upsert_law_rows"
    /\ frame.pc = "call"
    /\ frame' = IF frame.rows = <<>> THEN [frame EXCEPT !.pc = "returned"]
                ELSE [frame EXCEPT !.pc = "batch", !.start = 0]
    /\ UNCHANGED pipeline

\* One pass of "for start in range(0, total, batch_size)": the chunk is
\* embedded (embed_texts_openai may raise) and its points are upserted; at
\* the end of the range the function returns.
IngestBatch ==
    /\ frame.fn = "upsert_law_rows"
    /\ frame.pc = "batch"
    /\ IF frame.start >= Len(frame.rows)
       THEN frame' = [frame EXCEPT !.pc = "returned"]
       ELSE \E ok \in BOOLEAN :
               IF ~ok THEN frame' = [frame EXCEPT !.pc = "raised"]
               ELSE LET chunk == BatchOf(frame.rows, frame.start, frame.batch_size)
                        points == [i \in DOMAIN chunk |->
                                      PointStruct(chunk[i],
                                                  EmbeddingOf(TextOf(chunk[i])))]
                    IN  frame' = [frame EXCEPT
                                     !.stored = Upserted(@, points),
                                     !.start = @ + frame.batch_size]
    /\ UNCHANGED pipeline

\* The ingestion is run again with the same rows after a run that returned.
IngestAgain ==
    /\ frame.fn = "upsert_law_rows"
    /\ frame.pc = "returned"
    /\ frame.run = 1
    /\ frame' = [frame EXCEPT !.run = 2, !.pc = "call", !.start = 0,
                              !.after_first = frame.stored]
    /\ UNCHANGED pipeline

NextIngest ==
    \/ IngestCall
    \/ IngestBatch
    \/ IngestAgain

SpecIngest == InitIngest /\ [][NextIngest]_vars

\* ------------------------------------------------------------------ claims

\* The stage events of a run of all four stages, and of the three prep stages.
FullLog ==
    <<"embed:start", "embed:end", "retrieve:start", "retrieve:end",
      "prompt:start", "prompt:end", "generate:start", "generate:end">>
PrepLog ==
    <<"embed:start", "embed:end", "retrieve:start", "retrieve:end",
      "prompt:start", "prompt:end">>

RaiseEvents == {"embed:raise", "retrieve:raise", "prompt:raise", "generate:raise"}

\* log records a stage that raised.
HasRaise(log) == \E i \in DOMAIN log : log[i] \in RaiseEvents

IsPrefix(s, t) == Len(s) <= Len(t) /\ s = SubSeq(t, 1, Len(s))

\* log is a run of the stages of full in their order, each started after the
\* one before it ended: a prefix of full, or such a prefix that ends with a
\* started stage raising.
InOrder(log, full) ==
    \/ IsPrefix(log, full)
    \/ /\ Len(log) >= 2
       /\ log[Len(log)] \in RaiseEvents
       /\ IsPrefix(SubSeq(log, 1, Len(log) - 1), full)
       /\ \E st \in {"embed", "retrieve", "prompt", "generate"} :
             /\ log[Len(log) - 1] = st \o ":start"
             /\ log[Len(log)] = st \o ":raise"

\* C1: in a run of a non-streaming entry operation the stages run in the
\* order embed, retrieve, prompt, generate, each once and each only after
\* the one before it has completed, and the operation returns only after
\* generate has completed.
C1_SyncStagesInOrder ==
    req.entry \in SyncEntries =>
        /\ InOrder(stageLog, FullLog)
        /\ (outcome.returned => stageLog = FullLog)
        /\ (pc \in {"retrieve", "prompt", "generate", "END"} =>
                ~HasRaise(stageLog) /\ stageLog[Len(stageLog)] =
                    (CASE pc = "retrieve" -> "embed:end"
                       [] pc = "prompt" -> "retrieve:end"
                       [] pc = "generate" -> "prompt:end"
                       [] pc = "END" -> "generate:end"))

\* C1 witness: the full graph has run all four stages and the operation has
\* returned.
C1_Witness ==
    /\ req.entry = "answer_law_question_graph"
    /\ outcome.returned
    /\ stageLog = FullLog
    /\ Len(calls) >= 3

\* C2: in a run of a streaming entry operation the graph runs embed,
\* retrieve, prompt and ends without the generate stage: no synchronous chat
\* completion is requested, the state never holds an answer, and the
\* streaming request is made only after the operation has returned, which
\* is after the prompt stage completed.
C2_StreamPrepOnly ==
    req.entry \in StreamEntries =>
        /\ InOrder(stageLog, PrepLog)
        /\ "answer" \notin DOMAIN state
        /\ (outcome.returned => stageLog = PrepLog)
        /\ \A i \in DOMAIN calls :
              calls[i].gw = "chat" =>
                  /\ calls[i].stream
                  /\ outcome.returned
                  /\ stageLog = PrepLog
                  /\ gen.st # "none"

\* C2 witness: a streaming operation has returned and its stream has
\* delivered a fragment.
C2_Witness ==
    /\ req.entry = "stream_law_answer_graph"
    /\ outcome.returned
    /\ Len(gen.delivered) >= 1
    /\ \E i \in DOMAIN calls : calls[i].gw = "chat"

\* C3: when a stage of a non-streaming entry operation raises, no later
\* stage runs, no service of a later stage is called, the error reaches the
\* caller, and no (answer, neighbors) pair is returned, not even one with an
\* empty answer.
C3_SyncFailureReturnsNothing ==
    (req.entry \in SyncEntries /\ HasRaise(stageLog)) =>
        /\ pc \in {"raised", "done"}
        /\ stageLog[Len(stageLog)] \in RaiseEvents
        /\ outcome.raised # ""
        /\ ~outcome.returned
        /\ "answer" \notin DOMAIN state
        /\ http.status # 200 /\ http.answer = <<>> /\ http.sources = <<>>
        /\ (outcome.at = "embed" => \A i \in DOMAIN calls : calls[i].gw = "embedding")
        /\ (outcome.at = "retrieve" => \A i \in DOMAIN calls : calls[i].gw # "chat")

\* C3 witness: the generate stage raised after the embedding and the search
\* were made, and the handler answered with an error.
C3_Witness ==
    /\ req.entry \in SyncEntries
    /\ outcome.at = "generate"
    /\ outcome.raised = "transport"
    /\ Len(calls) >= 3
    /\ http.status = 500

\* The fragments of a stream: its chunks that carry a delta.
Deltas(chunks) == SelectSeq(chunks, LAMBDA c : c # "")

\* C4: on either entry operation a stage failure aborts the request and no
\* partial answer is handed over as complete: after a stage raised nothing is
\* returned; a stream that failed, also after fragments were pulled, never
\* ends normally, and a response is completed only with the whole answer.
C4_FailureNeverLooksComplete ==
    /\ HasRaise(stageLog) =>
          /\ ~outcome.returned
          /\ gen.st = "none"
          /\ http.status # 200
          /\ pc \in {"raised", "done"}
    /\ gen.st = "failed" => ~http.complete
    /\ gen.st = "done" => gen.delivered = Deltas(gen.chunks)
    /\ (http.status = 200 /\ http.complete) =>
          IF req.entry \in SyncEntries
          THEN stageLog = FullLog /\ http.answer = state.answer
          ELSE gen.st = "done" /\ http.body = Deltas(gen.chunks)

\* C4 witness: the stream failed after the handler had forwarded a fragment.
C4_Witness ==
    /\ req.via = "http"
    /\ gen.st = "failed"
    /\ Len(http.body) >= 1
    /\ http.status = 200
    /\ ~http.complete

\* The calls that went over the network: all but the local KURE encoding.
NetworkCalls(cs) ==
    SelectSeq(cs, LAMBDA c : c.gw # "embedding" \/ c.provider # "kure")

\* C5: a configuration error (empty Qdrant URL, empty collection name, empty
\* generation key, missing embedding key) is raised before any network call
\* to a service is made.
C5_ConfigErrorBeforeAnyCall ==
    /\ outcome.raised = "config" => NetworkCalls(calls) = <<>>
    /\ (gen.st = "failed" /\ cfg.OPENAI_API_KEY_LAWBOT = "") =>
          NetworkCalls(calls) = <<>>

\* C6: a call with top_k zero or negative, through a handler or direct, is
\* rejected before any network call to a service.
C6_NonPositiveTopKNoCall == req.top_k <= 0 => NetworkCalls(calls) = <<>>

\* C7: a call with an empty question, through a handler or direct, is
\* rejected before any network call to a service.
C7_EmptyQuestionNoCall == req.question = <<>> => NetworkCalls(calls) = <<>>

\* C8: the second call, of the other mode, with the same question and top_k
\* and the same services, sends the same search (vector, limit, collection)
\* and returns the same neighbor list as the first.
C8_SameRetrievalInBothModes ==
    req.callNo = 2 =>
        /\ Searches(calls) # <<>> => Searches(calls) = prev.search
        /\ outcome.returned =>
              /\ Searches(calls) = prev.search
              /\ outcome.points = prev.points

\* C8 witness: the second call returned neighbors.
C8_Witness ==
    /\ req.callNo = 2
    /\ outcome.returned
    /\ Len(outcome.points) >= 2
    /\ Len(prev.search) = 1

\* ps is the list raw, hit by hit: same length, same order, ids and scores.
SameHits(ps, raw) ==
    /\ Len(ps) = Len(raw)
    /\ \A i \in DOMAIN raw : ps[i].id = raw[i].id /\ ps[i].score = raw[i].score

\* C9: the neighbor list an entry operation holds and returns, and the
\* sources list a handler builds from it, are the search answer's hits: same
\* length, same order, every id and score as received.
C9_NeighborsAsReceived ==
    /\ "points" \in DOMAIN state => SameHits(state.points, wire)
    /\ outcome.returned => SameHits(outcome.points, wire)
    /\ (http.status = 200 /\ req.entry \in SyncEntries) =>
          SameHits(http.sources, wire)

\* C9 witness: a handler answered with two or more sources.
C9_Witness ==
    /\ http.status = 200
    /\ req.entry \in SyncEntries
    /\ Len(http.sources) >= 2

C11_StreamYieldsFragmentsInOrder ==
    gen.st \in {"running", "done", "failed", "closed"} =>
       /\ gen.delivered = Deltas(SubSeq(gen.chunks, 1, gen.pos))
       /\ gen.st = "running" =>
             /\ gen.pos \in 1..Len(gen.chunks)
             /\ gen.chunks[gen.pos] = gen.delivered[Len(gen.delivered)]
       /\ req.via = "http" => http.body = gen.delivered

\* C11 witness: a stream of two fragments around a chunk without a delta was
\* consumed to its end.
C11_Witness ==
    /\ gen.st = "done"
    /\ gen.chunks = <<"f1", "", "f2">>
    /\ gen.delivered = <<"f1", "f2">>

\* C12: when a stream function returns, embed, retrieve and prompt have all
\* completed and the neighbor list is final: the function returns it together
\* with a generator that has not run, no fragment is delivered before the
\* return, and no step after the return (a pull, the end or a failure of the
\* stream, the consumer going away) changes the neighbors, the state or the
\* stage log of that call.
C12_NeighborsFinalAtReturn ==
    /\ [](req.entry \in StreamEntries =>
            /\ ~outcome.returned => gen = NoGen
            /\ outcome.returned =>
                  /\ stageLog = PrepLog
                  /\ gen.st # "none"
                  /\ {"query_vec", "points", "context", "system_prompt",
                      "user_prompt"} \subseteq DOMAIN state
                  /\ outcome.points = state.points)
    /\ [][(req.entry \in StreamEntries /\ outcome.returned /\ req' = req) =>
            /\ outcome' = outcome
            /\ state' = state
            /\ stageLog' = stageLog
            /\ wire' = wire]_vars

\* C12 witness: the consumer went away after a fragment of a stream whose
\* call returned two neighbors.
C12_Witness ==
    /\ req.entry \in StreamEntries
    /\ outcome.returned
    /\ Len(outcome.points) = 2
    /\ gen.st = "closed"
    /\ Len(gen.delivered) = 1

\* The search of this call answered with no neighbors.
ZeroNeighbors == "points" \in DOMAIN state /\ state.points = <<>>

\* The text of a user prompt between the line that announces the reference
\* documents and the two newlines and the closing instruction after it.
ContextSection(up) ==
    LET i == CHOOSE j \in DOMAIN up : up[j] = "Reference documents:\n"
    IN  SubSeq(up, i + 1, Len(up) - 3)

\* The chat requests among the calls made.
Chats(cs) == SelectSeq(cs, LAMBDA c : c.gw = "chat")

\* The retrieve and prompt stages do not raise, and generation is invoked
\* with the prompt pair built: by the sync functions before they return, by
\* the stream functions through the generator they return.
StillGenerates ==
    /\ outcome.raised # "" => outcome.at = "generate"
    /\ "user_prompt" \in DOMAIN state =>
          /\ state.system_prompt # <<>>
          /\ state.user_prompt # <<>>
    /\ (req.entry \in SyncEntries /\ outcome.returned) =>
          /\ Len(Chats(calls)) = 1
          /\ Chats(calls)[1].user_prompt = state.user_prompt
    /\ (req.entry \in StreamEntries /\ outcome.returned) =>
          /\ gen.st # "none"
          /\ gen.st \in {"running", "done"} =>
                /\ Len(Chats(calls)) = 1
                /\ Chats(calls)[1].user_prompt = state.user_prompt

\* C13 as stated: with zero neighbors no entry operation raises, both prompts
\* are non-empty, generation is still invoked, and the context section of the
\* user prompt states that no grounding documents were found (at the least,
\* it has some text).
C13_ZeroNeighborsPromptSaysSo ==
    ZeroNeighbors =>
       /\ StillGenerates
       /\ "user_prompt" \in DOMAIN state =>
             ContextSection(state.user_prompt) # <<>>

\* C13 amended: with zero neighbors no entry operation raises, both prompts
\* are non-empty, generation is still invoked, and the context section of the
\* user prompt is empty: the context is the empty string and nothing is
\* written in its place.
C13_ZeroNeighborsEmptyContext ==
    ZeroNeighbors =>
       /\ StillGenerates
       /\ "context" \in DOMAIN state /\ state.context = <<>>
       /\ "user_prompt" \in DOMAIN state =>
             ContextSection(state.user_prompt) = <<>>

\* C13 witness: a sync function returned an answer generated from a prompt
\* built with zero neighbors.
C13_Witness ==
    /\ ZeroNeighbors
    /\ req.entry \in SyncEntries
    /\ outcome.returned
    /\ Len(Chats(calls)) = 1
    /\ ContextSection(Chats(calls)[1].user_prompt) = <<>>

\* The embedding requests among the calls made.
Embeddings(cs) == SelectSeq(cs, LAMBDA c : c.gw = "embedding")

\* What entry operation e returns for question q and top_k k when it runs
\* alone and no request fails.
AloneResult(e, q, k) ==
    LET vec == QueryVecOf(osenv.EMBED_PROVIDER, q)
        pts == PointsOf(SearchResultFor(vec, k), active_collection_name(cfg))
        up == UserPrompt(q, build_context_from_points(pts, MaxCharsPerDoc))
    IN  [answer |-> IF e \in SyncEntries THEN Strip(ChatContentFor(up)) ELSE <<>>,
         points |-> pts,
         gen |-> IF e \in StreamEntries THEN <<SystemPrompt, up>> ELSE <<>>]

\* C14: in every interleaving of two concurrent invocations each works on
\* its own state (the state of an invocation holds that invocation's
\* question and top_k from its entry on), each returns what it would return
\* when run alone, and the module-level objects hold no data of a request:
\* the KURE model slot holds a model or nothing, the Qdrant session holds
\* connections.
C14_ConcurrentInvocationsIndependent ==
    frame.fn = "concurrent" =>
       /\ \A t \in Invocations :
             LET i == frame.inv[t]
             IN  /\ i.pc \notin {"entry"} =>
                       /\ frame.states[t] # EmptyDict
                       /\ frame.states[t].question = i.question
                       /\ frame.states[t].top_k = i.top_k
                 /\ i.pc = "returned" =>
                       i.result = AloneResult(i.entry, i.question, i.top_k)
       /\ frame.kure.model \in 0..frame.kure.loads
       /\ frame.session \in [pooled : {0, 1}]

\* C14 witness: two invocations with different questions and top_k, one
\* sync and one streaming, have both returned, each with neighbors of its
\* own.
C14_Witness ==
    /\ frame.fn = "concurrent"
    /\ frame.inv[1].pc = "returned"
    /\ frame.inv[2].pc = "returned"
    /\ frame.inv[1].entry = "answer_law_question_graph"
    /\ frame.inv[2].entry = "stream_law_answer_graph"
    /\ frame.inv[1].question # frame.inv[2].question
    /\ frame.inv[1].top_k # frame.inv[2].top_k
    /\ frame.inv[1].result.points # frame.inv[2].result.points
    /\ frame.inv[1].result.answer # <<>>

\* C15: the two collections are never mixed: every search request of a call
\* whose query vector the kure provider produced names the KURE collection
\* (QDRANT_COLLECTION_NAME), and every search request of a call whose query
\* vector the openai provider produced names the OpenAI collection
\* (QDRANT_COLLECTION_OAI), also when QDRANT_COLLECTION_OAI is empty.
C15_CollectionsNeverMixed ==
    \A i \in DOMAIN calls :
        calls[i].gw = "search" =>
           /\ Embeddings(calls) # <<>>
           /\ LET provider == Embeddings(calls)[Len(Embeddings(calls))].provider
              IN  calls[i].collection =
                     IF provider = "kure" THEN cfg.QDRANT_COLLECTION_NAME
                     ELSE cfg.QDRANT_COLLECTION_OAI

\* The event at position i of log is a request that failed.
FailedRequest(log, i) == log[i].ev = "request" /\ log[i].result # "ok"

\* C16: embed_texts_openai retries a failed embedding request a bounded
\* number of times: each batch is attempted at most retry times, each attempt
\* number once; no request for a batch follows its first success; a failed
\* attempt before the last is followed by a wait of 0.8 s times the attempt
\* number (so the waits of a batch grow) and then by the next attempt; no
\* wait follows the last attempt: the function raises at once, and the error
\* it raises carries the cause of that last failed attempt.
C16_EmbedRetryBounded ==
    frame.fn = "embed_texts_openai" =>
       LET log == frame.log
       IN  /\ \A i \in DOMAIN log :
                 log[i].ev = "request" =>
                    /\ log[i].attempt \in 1..frame.retry
                    /\ \A j \in DOMAIN log :
                          (j > i /\ log[j].ev = "request"
                                 /\ log[j].start = log[i].start) =>
                             /\ log[i].result # "ok"
                             /\ log[j].attempt > log[i].attempt
                    /\ (FailedRequest(log, i) /\ log[i].attempt < frame.retry) =>
                          /\ i = Len(log) => frame.pc = "wait"
                          /\ i < Len(log) =>
                                /\ log[i + 1].ev = "sleep"
                                /\ log[i + 1].tenths = 8 * log[i].attempt
                          /\ i + 1 < Len(log) =>
                                /\ log[i + 2].ev = "request"
                                /\ log[i + 2].start = log[i].start
                                /\ log[i + 2].attempt = log[i].attempt + 1
                    /\ (FailedRequest(log, i) /\ log[i].attempt = frame.retry) =>
                          /\ i = Len(log)
                          /\ frame.pc = "raised"
                          /\ frame.raised = "RuntimeError"
                          /\ frame.cause = log[i].result
           /\ \A i \in DOMAIN log :
                 log[i].ev = "sleep" =>
                    /\ i > 1
                    /\ FailedRequest(log, i - 1)
                    /\ log[i - 1].attempt < frame.retry
                    /\ \A j \in DOMAIN log :
                          (j > i /\ log[j].ev = "sleep"
                                 /\ log[j].start = log[i].start) =>
                             log[j].tenths > log[i].tenths
           /\ frame.raised = "RuntimeError" =>
                 /\ log # <<>>
                 /\ FailedRequest(log, Len(log))
                 /\ log[Len(log)].attempt = frame.retry
                 /\ frame.cause = log[Len(log)].result

\* C16 witness: with retry 3 the second batch failed three times, with two
\* waits between, after the first batch had succeeded at its second attempt;
\* the error raised carries the cause of the third failure.
C16_Witness ==
    /\ frame.fn = "embed_texts_openai"
    /\ frame.retry = 3
    /\ frame.pc = "raised"
    /\ frame.raised = "RuntimeError"
    /\ frame.cause = "rate_limit"
    /\ Len(frame.log) = 8
    /\ frame.log[3].result = "ok"
    /\ frame.log[7].tenths = 16
    /\ frame.log[6].result = "timeout"

\* C17: embed_texts_openai is length- and order-preserving for every input
\* list, batch size and retry setting: whenever it returns normally it
\* returns one vector per text, the i-th being the embedding of the i-th
\* text; for the empty list it returns the empty list and sends no request.
C17_EmbedLengthAndOrderPreserving ==
    frame.fn = "embed_texts_openai" =>
       /\ frame.pc = "returned" =>
             /\ Len(frame.out) = Len(frame.texts)
             /\ \A i \in DOMAIN frame.out :
                   frame.out[i] = EmbeddingOf(Cleaned(frame.texts[i]))
       /\ frame.texts = <<>> =>
             /\ frame.log = <<>>
             /\ frame.pc \in {"call", "returned"}
             /\ frame.out = <<>>

\* The label of the i-th section, and whether a line starts with a token.
Label(i) == <<"[doc ", ToString(i), "]">>
StartsWith(line, tok) == line # <<>> /\ line[1] = tok

\* Where the section labelled i starts in lines, and the question and the
\* answer text found in that section (<<>>: the section has no such line).
Pos(lines, i) == CHOOSE j \in DOMAIN lines : lines[j] = Label(i)
QuestionText(lines, i) ==
    LET l1 == lines[Pos(lines, i) + 1]
    IN  IF StartsWith(l1, "Q: ") THEN Tail(l1) ELSE <<>>
AnswerText(lines, i) ==
    LET j == Pos(lines, i)
        l1 == lines[j + 1]
        l2 == IF l1 # <<>> THEN lines[j + 2] ELSE <<>>
    IN  IF StartsWith(l1, "A: ") THEN Tail(l1)
        ELSE IF StartsWith(l2, "A: ") THEN Tail(l2)
        ELSE <<>>

\* What the claim calls the stripped answer of a point.
StrippedAnswer(p) == Strip(Or(Get(p, "answer", None), <<>>))

\* text ends with the truncation marker.
Marked(text) == text # <<>> /\ text[Len(text)] = "..."

\* The sections of lines are those of points in rank order: one label per
\* point, the i-th label is i counted from 1, the labels appear in that
\* order, and the i-th section carries the question of the i-th point and
\* an answer text that starts as the i-th point's answer does.
SectionsInRankOrder(lines, points) ==
    /\ Cardinality({j \in DOMAIN lines : StartsWith(lines[j], "[doc ")})
          = Len(points)
    /\ \A i \in DOMAIN points :
          /\ Cardinality({j \in DOMAIN lines : lines[j] = Label(i)}) = 1
          /\ \A k \in DOMAIN points :
                i < k => Pos(lines, i) < Pos(lines, k)
          /\ QuestionText(lines, i)
                = Strip(Or(Get(points[i], "question", None), <<>>))
          /\ LET t == AnswerText(lines, i)
                 body == IF Marked(t) THEN SubSeq(t, 1, Len(t) - 1) ELSE t
             IN  IsPrefix(body, StrippedAnswer(points[i]))

\* The answer text of section i is within the cap plus the marker, and the
\* marker is there exactly when the stripped answer is longer than the cap.
AnswerCapped(lines, points, i, cap) ==
    LET t == AnswerText(lines, i)
    IN  /\ Len(t) <= cap + 1
        /\ Marked(t) <=> Len(StrippedAnswer(points[i])) > cap

\* C18 as stated: for every neighbor sequence and every cap C the sections
\* are emitted in rank order, labelled from 1, each answer text is at most
\* C characters plus the marker, and the marker is appended exactly when the
\* stripped answer is longer than C.
C18_SectionsCappedForEveryCap ==
    (frame.fn = "build_context_from_points" /\ frame.pc = "returned") =>
       /\ SectionsInRankOrder(frame.lines, frame.points)
       /\ \A i \in DOMAIN frame.points :
             AnswerCapped(frame.lines, frame.points, i, frame.max_chars_per_doc)

\* C18 amended: the sections are emitted in rank order, labelled from 1, for
\* every cap; for every cap C of at least 1 each answer text is at most C
\* characters plus the marker, appended exactly when the stripped answer is
\* longer than C; with a cap of 0 or less the whole stripped answer is
\* emitted, without a marker.
C18_SectionsCappedForPositiveCap ==
    (frame.fn = "build_context_from_points" /\ frame.pc = "returned") =>
       /\ SectionsInRankOrder(frame.lines, frame.points)
       /\ \A i \in DOMAIN frame.points :
             IF frame.max_chars_per_doc >= 1
             THEN AnswerCapped(frame.lines, frame.points, i,
                               frame.max_chars_per_doc)
             ELSE AnswerText(frame.lines, i) = StrippedAnswer(frame.points[i])

\* C18 witness: with cap 2, a first point whose stripped answer has exactly
\* two characters (kept whole) and a second whose answer has three (cut to
\* two and marked).
C18_Witness ==
    /\ frame.fn = "build_context_from_points"
    /\ frame.pc = "returned"
    /\ frame.max_chars_per_doc = 2
    /\ Len(frame.points) = 2
    /\ AnswerText(frame.lines, 1) = <<"a", "b">>
    /\ AnswerText(frame.lines, 2) = <<"a", "b", "...">>

\* C19: build_context_from_points on an empty neighbor sequence returns the
\* empty string; nothing is appended and nothing is raised on the way.
C19_EmptyPointsEmptyContext ==
    (frame.fn = "build_context_from_points" /\ frame.points = <<>>) =>
       /\ frame.lines = <<>>
       /\ frame.pc \in {"loop", "returned"}
       /\ frame.pc = "returned" => frame.out = <<>>

\* C19 witness: the function returned for the empty list.
C19_Witness ==
    /\ frame.fn = "build_context_from_points"
    /\ frame.points = <<>>
    /\ frame.pc = "returned"
    /\ frame.out = <<>>

\* The prompt stage of this call has written its two fields.
PromptBuilt(st) == {"system_prompt", "user_prompt"} \subseteq DOMAIN st

\* C20: the Prompt Builder is pure and deterministic: the system prompt is
\* the same fixed text for every caller and input; the user prompt holds the
\* literal question and, as its context section, the literal context; a
\* second call with the same question and context, through the other
\* implementation too, gets the identical pair; and the step that builds the
\* prompts sends no request and changes nothing but the two prompt fields
\* (and the position and the stage log of the run).
C20_PromptBuilderPure ==
    /\ [](PromptBuilt(state) =>
            /\ state.system_prompt = SystemPrompt
            /\ SubSeq(state.user_prompt, 2, 1 + Len(state.question))
                  = state.question
            /\ ContextSection(state.user_prompt) = state.context
            /\ (PromptBuilt(prev.state) /\ prev.state.question = state.question
                                        /\ prev.state.context = state.context) =>
                  /\ state.system_prompt = prev.state.system_prompt
                  /\ state.user_prompt = prev.state.user_prompt)
    /\ [][pc = "prompt" =>
            /\ PromptBuilt(state')
            /\ DOMAIN state' = DOMAIN state \cup {"system_prompt", "user_prompt"}
            /\ \A k \in DOMAIN state \ {"system_prompt", "user_prompt"} :
                  state'[k] = state[k]
            /\ UNCHANGED <<cfg, osenv, svc, req, embedLoop, calls, replies, outcome,
                           gen, http, prev, wire, frame>>]_vars

\* C20 witness: a graph function built the prompts of a question with two
\* neighbors after a direct function had built them for the same question
\* and context.
C20_Witness ==
    /\ req.callNo = 2
    /\ req.entry \in GraphEntries
    /\ prev.entry \in DirectEntries
    /\ PromptBuilt(state)
    /\ PromptBuilt(prev.state)
    /\ state.question = <<"q">>
    /\ Len(state.points) = 2
    /\ state.context # <<>>
    /\ prev.state.context = state.context
    /\ state.user_prompt = prev.state.user_prompt

\* The (stream, neighbors) pair: a tuple of a generator and a list.
ExpectedShape(out) ==
    /\ out.type = "tuple"
    /\ Len(out.items) = 2
    /\ out.items[1].type = "generator"
    /\ out.items[2].type = "list"

\* C21: a streaming handler that gets anything but a two-element
\* (stream, neighbors) tuple from its entry operation raises: it starts no
\* response stream from such a value.
C21_MalformedStreamShapeFailsLoudly ==
    (frame.fn = "stream_handler" /\ ~ExpectedShape(frame.out) /\ frame.pc # "call") =>
        /\ frame.raised # ""
        /\ frame.status # 200

StateFields ==
    {"question", "top_k", "query_vec", "points", "context", "system_prompt",
     "user_prompt", "answer"}
WrittenAt(p) ==
    CASE p = "entry" -> {"question", "top_k"}
      [] p = "embed" -> {"query_vec"}
      [] p = "retrieve" -> {"points", "context"}
      [] p = "prompt" -> {"system_prompt", "user_prompt"}
      [] p = "generate" -> {"answer"}
      [] OTHER -> {}

\* C23: in a run of the full graph or of the prep graph the state only
\* grows: a step of the run adds at most the fields of the stage it is in,
\* none of which the state held before, and every field the state holds
\* keeps its value; at the end of the run the state holds every field once
\* (all eight in the full graph, all but answer in the prep graph).
C23_StateAppendOnly ==
    /\ [](req.entry \in GraphEntries /\ pc = "END" =>
              DOMAIN state = IF req.entry \in SyncEntries THEN StateFields
                             ELSE StateFields \ {"answer"})
    /\ [][(req.entry \in GraphEntries /\ req' = req) =>
              /\ \A k \in DOMAIN state : k \in DOMAIN state' /\ state'[k] = state[k]
              /\ (DOMAIN state' \ DOMAIN state) \subseteq WrittenAt(pc)]_vars

\* C23 witness: the full graph has run to its end and the state holds all
\* eight fields, question and top_k as they were given.
C23_Witness ==
    /\ req.entry = "answer_law_question_graph"
    /\ pc = "END"
    /\ DOMAIN state = StateFields
    /\ state.question = req.question
    /\ state.top_k = req.top_k

\* The stages in their order, and the fields each reads.
StageNames == {"embed", "retrieve", "prompt", "generate"}
StageNo(p) ==
    CASE p = "embed" -> 1 [] p = "retrieve" -> 2 [] p = "prompt" -> 3
      [] p = "generate" -> 4
ReadAt(p) ==
    CASE p = "embed" -> {"question"}
      [] p = "retrieve" -> {"query_vec", "top_k"}
      [] p = "prompt" -> {"question", "context"}
      [] p = "generate" -> {"system_prompt", "user_prompt"}

\* C24: when a stage is about to run, the state holds the fields written at
\* call entry and by every stage before it, and no field of the stage itself
\* or of a later stage: each field the stage reads is there, written at
\* entry or by an earlier stage, and nothing a later stage writes can be
\* read.
C24_DataFlowsForward ==
    pc \in StageNames =>
        /\ WrittenAt("entry") \subseteq DOMAIN state
        /\ \A s \in StageNames :
              IF StageNo(s) < StageNo(pc)
              THEN WrittenAt(s) \subseteq DOMAIN state
              ELSE WrittenAt(s) \cap DOMAIN state = {}
        /\ ReadAt(pc) \subseteq DOMAIN state
        /\ ReadAt(pc) \cap UNION {WrittenAt(s) : s \in {x \in StageNames :
                                     StageNo(x) >= StageNo(pc)}} = {}

\* C24 witness: the generate stage of the full graph is about to run on a
\* state that holds the prompt pair and no answer.
C24_Witness ==
    /\ req.entry = "answer_law_question_graph"
    /\ pc = "generate"
    /\ {"system_prompt", "user_prompt"} \subseteq DOMAIN state
    /\ "answer" \notin DOMAIN state

\* The number of events ev in log.
Count(log, ev) == Cardinality({i \in DOMAIN log : log[i] = ev})

\* C25: in one invocation of an entry operation every stage is started at
\* most once (embed_texts is called once; the attempts inside it are the
\* gateway's), at most one search request and at most one generation request
\* are made, and after a stage has raised no stage runs and no request is
\* made.
C25_OrchestratorNeverRetries ==
    /\ [](/\ \A s \in StageNames : Count(stageLog, s \o ":start") <= 1
          /\ Len(Searches(calls)) <= 1
          /\ Len(Chats(calls)) <= 1
          /\ Len(Embeddings(calls)) <= Retry
          /\ HasRaise(stageLog) =>
                /\ pc \in {"raised", "done"}
                /\ stageLog[Len(stageLog)] \in RaiseEvents)
    /\ [][HasRaise(stageLog) =>
              /\ stageLog' = stageLog
              /\ calls' = calls
              /\ state' = state]_vars

\* C25 witness: the retrieve stage raised after the embed stage had run; one
\* embedding request and one search request were made, and the handler has
\* answered with an error.
C25_Witness ==
    /\ stageLog = <<"embed:start", "embed:end", "retrieve:start", "retrieve:raise">>
    /\ Len(Searches(calls)) = 1
    /\ Len(Embeddings(calls)) = 1
    /\ pc = "done"
    /\ http.status = 500

\* The requests an entry operation makes itself: all but the streaming chat
\* request, which the returned generator makes when it is first pulled.
EntryLen(cs) == Len(SelectSeq(cs, LAMBDA c : ~(c.gw = "chat" /\ c.stream)))

\* The prompt pair a state holds.
PromptPair(st) ==
    <<Get(st, "system_prompt", <<>>), Get(st, "user_prompt", <<>>)>>

\* The services answered the first k requests of this call as they answered
\* the first k requests of the call before.
SameAnswers(k) ==
    /\ k <= Len(prev.replies)
    /\ k <= Len(replies)
    /\ SubSeq(replies, 1, k) = SubSeq(prev.replies, 1, k)

\* C26: the same call (question, top_k, settings) made through the function
\* of law_rag.py and through the graph: as long as the services answer the
\* same, the two make the same requests with the same arguments in the same
\* order; when they have answered the same throughout, both operations end
\* the same way, with the same (answer, neighbors) and the same prompt pair
\* or the same failure at the same stage; and a stream pulled afterwards
\* sends the same prompt pair.
C26_DirectAndGraphSamePipeline ==
    (req.callNo = 2 /\ prev.entry = Counterpart(req.entry)) =>
        LET n == EntryLen(calls)
            m == EntryLen(prev.calls)
        IN  /\ \A i \in 1..n :
                  SameAnswers(i - 1) => i <= m /\ calls[i] = prev.calls[i]
            /\ (pc \in {"returned", "raised"} /\ SameAnswers(n)) =>
                  /\ n = m
                  /\ outcome = prev.outcome
                  /\ PromptPair(state) = PromptPair(prev.state)
            /\ \A i \in (n + 1)..Len(calls) :
                  SameAnswers(n) =>
                      <<calls[i].system_prompt, calls[i].user_prompt>> =
                          PromptPair(prev.state)

\* C26 witness: the graph has answered after the direct function did, with
\* the same three requests answered the same way, and returned neighbors.
C26_Witness ==
    /\ req.callNo = 2
    /\ req.entry = "answer_law_question_graph"
    /\ prev.entry = "search_law_with_answer"
    /\ outcome.returned
    /\ replies = prev.replies
    /\ Len(calls) = 3
    /\ Len(outcome.points) >= 1
    /\ outcome.answer # <<>>

\* C26 witness for the streaming pair and for a failure: the direct stream
\* function has raised in its retrieve stage after the graph's did.
C26_WitnessStreamFails ==
    /\ req.callNo = 2
    /\ req.entry = "stream_law_answer"
    /\ prev.entry = "stream_law_answer_graph"
    /\ pc = "raised"
    /\ outcome.at = "retrieve"
    /\ replies = prev.replies
    /\ Len(calls) = 2

\* C27: an embed stage that has completed has written a non-empty query
\* vector, and no search request carries an empty vector: in the pipeline of
\* the entry operations and in the retrieval chain of law_rag_chain.py.
C27_QueryVectorNonEmpty ==
    /\ "query_vec" \in DOMAIN state => state.query_vec # <<>>
    /\ \A i \in DOMAIN calls :
          calls[i].gw = "search" => calls[i].vector # <<>>
    /\ frame.fn = "retrieval_chain" =>
          /\ frame.pc \in {"search_step", "returned"} => frame.query_vec # <<>>
          /\ \A i \in DOMAIN frame.requests : frame.requests[i].vector # <<>>

\* C28: a streaming entry operation never contacts the generation service
\* and never checks the generation key: as long as the stream it returned
\* has not been pulled no chat request has been made; the operation raises
\* only in the embed or the retrieve stage; what it returns is a generator
\* that has not started, whatever the generation key is; and the generator
\* leaves that state only when the consumer pulls or abandons it, so a
\* failure of the generation is a failure of a pull.
C28_StreamingGenerationLazy ==
    /\ [](req.entry \in StreamEntries =>
            /\ gen.st \in {"none", "created"} => Chats(calls) = <<>>
            /\ outcome.at \in {"", "embed", "retrieve"}
            /\ gen.st # "none" => outcome.returned /\ outcome.raised = ""
            /\ "generate:start" \notin {stageLog[i] : i \in DOMAIN stageLog})
    /\ [][(req.entry \in StreamEntries /\ req' = req) =>
            /\ (pc = "END" /\ pc' = "returned") => gen'.st = "created"
            /\ (gen.st = "created" /\ gen'.st # "created") =>
                  /\ Consuming
                  /\ gen'.st \in {"running", "done", "failed", "closed"}
                  /\ outcome' = outcome
                  /\ pc' = pc]_vars

\* C28 witness: without a generation key the streaming graph function has
\* returned its generator and the neighbors; the first pull failed, and no
\* chat request was made.
C28_Witness ==
    /\ req.entry = "stream_law_answer_graph"
    /\ cfg.OPENAI_API_KEY_LAWBOT = ""
    /\ outcome.returned
    /\ Len(outcome.points) >= 1
    /\ gen.st = "failed"
    /\ Chats(calls) = <<>>

\* C29: whatever the interleaving of concurrent first calls, the KURE model
\* is constructed at most once in the process.
C29_KureModelLoadedOnce ==
    frame.fn = "concurrent" => frame.kure.loads <= 1

\* C30: a row has the same point id in every run and different rows have
\* different ids: after a run that returned, the collection holds for every
\* row given a point with that row's id and that row's fields, one point per
\* distinct row; and a second run with the same rows leaves the points of
\* the first.
C30_IngestionIdempotent ==
    (frame.fn = "upsert_law_rows" /\ frame.pc = "returned") =>
        LET given == {frame.rows[i] : i \in DOMAIN frame.rows}
        IN  /\ \A r \in given :
                  \E p \in frame.stored :
                      /\ p.id = make_point_id(r)
                      /\ p.payload.source_dataset = r.source_dataset
                      /\ p.payload.law_category = r.law_category
                      /\ p.payload.question = r.question
                      /\ p.payload.answer = r.answer
            /\ Cardinality(frame.stored) = Cardinality(given)
            /\ frame.run = 2 => frame.stored = frame.after_first

====
